---------------------------- MODULE Spec2Model ----------------------------
(***************************************************************************)
(* Medication dosing and quantity resolution (livny_health frontend).      *)
(*                                                                         *)
(*   utils/quantityCalculator.ts  (src/unnamed/part_002)                   *)
(*   utils/unitConversion.ts      (src/frontend/src/types/patient.ts)      *)
(*                                                                         *)
(* Both modules are collections of pure functions.  The state machine      *)
(* below records one call at a time: `call` is the function applied with   *)
(* its arguments and `ret` is the value the code returns for it.           *)
(* `frequencyOptions` is the content of the exported array                 *)
(* FREQUENCY_OPTIONS, the one object every call shares.                    *)
(*                                                                         *)
(* Numbers.  The amounts calculateQuantity multiplies are rationals        *)
(* <<n, d>> in lowest terms with d > 0: its arguments are integers, every  *)
(* catalog perDay is an integer or 1/7, and for such operands Math.ceil of *)
(* the double product equals the ceiling of the exact product within the   *)
(* bounds used here (fl(1/7) lies below 1/7 by 2^-54 relative, so a        *)
(* product that is an exact integer is never rounded above it).            *)
(* unitConversion.ts is computed in IEEE 754 double arithmetic, bit for    *)
(* bit: its results depend on how a product or quotient that is not        *)
(* representable is rounded (49.75 * 29.5735 / 29.5735 is not 49.75).      *)
(* A call records an amount as the rational written in the program text;   *)
(* Double(r) is the double that text denotes.                              *)
(*                                                                         *)
(* Texts are TLA+ strings; Char(s, i) is the i-th character.               *)
(*                                                                         *)
(* Specifications.                                                         *)
(*   Spec     one call of one exported function.                           *)
(*   Session  calls repeated and interleaved on the shared array.          *)
(*   Chart    pages/PatientChartPage.tsx: a medication is selected, its    *)
(*            dosing, frequency, duration and instructions are edited and  *)
(*            it is added to the prescription.  A search is one step here. *)
(*   Api      api/medicationApi.ts: searchMedications with its cache,      *)
(*            called with any query, responses arriving in any order.      *)
(*   Search   the search box of PatientChartPage on top of the API: typed  *)
(*            query, debounced query, the performSearch effect.            *)
(* getDefaultDuration and useDebounce are imported by the page from files  *)
(* that are not part of the sources: the default duration is an arbitrary  *)
(* member of DefaultDurations, and the debounce hands on the latest typed  *)
(* query at some later time.                                               *)
(***************************************************************************)
EXTENDS Integers, Sequences, FiniteSets, TLC

VARIABLES call, ret, frequencyOptions, earlier,
          selectedMedication, prescription,
          searchQuery, debouncedSearch, searchResults, isSearching,
          pending, searchCache, now

\* The state of PatientChartPage and of the medication search it uses.
pageVars ==
    <<selectedMedication, prescription, searchQuery, debouncedSearch,
      searchResults, isSearching, pending, searchCache, now>>

vars == <<call, ret, frequencyOptions, earlier, pageVars>>

(***************************************************************************)
(* Bounds of the checked input space.                                      *)
(***************************************************************************)
MaxDuration == 15
MaxNegative == 2
MaxDoses == 4
MaxDoseFrags == 3
MaxFreqFrags == 2
MaxVolume == 120

(***************************************************************************)
(* JavaScript values that are not strings or numbers.                      *)
(***************************************************************************)
\* `null` as returned by parseFrequencyFromDosing; no catalog code equals it.
Null == "<null>"

\* `undefined`, the value of an optional field that was not computed.
Undefined == [undefined |-> TRUE]

(***************************************************************************)
(* Number arithmetic on rationals <<n, d>>.                                *)
(***************************************************************************)
Abs(n) == IF n < 0 THEN -n ELSE n

RECURSIVE GCD(_, _)
GCD(a, b) == IF b = 0 THEN a ELSE GCD(b, a % b)

\* The number n/d (d # 0) in lowest terms with a positive denominator.
Rat(n, d) ==
    LET g == GCD(Abs(n), Abs(d))
        s == IF d < 0 THEN -1 ELSE 1
    IN  <<(s * n) \div g, (s * d) \div g>>

Num(k) == <<k, 1>>

RatMul(x, y) == Rat(x[1] * y[1], x[2] * y[2])

RatDiv(x, y) == Rat(x[1] * y[2], x[2] * y[1])

RatLt(x, y) == x[1] * y[2] < y[1] * x[2]

RatGe(x, y) == ~RatLt(x, y)

\* Mutant of MathCeil: rounds to the nearest integer, as Math.round does.
MathCeil_Nearest(x) == (2 * x[1] + x[2]) \div (2 * x[2])

\* Math.ceil, computed with \div, which rounds toward -infinity.
MathCeil(x) == -((-x[1]) \div x[2])

(***************************************************************************)
(* IEEE 754 double arithmetic.                                             *)
(*                                                                         *)
(* A double is <<sign, significand, exponent>> and stands for              *)
(* sign * significand * 2^exponent with 2^52 <= significand < 2^53; zero   *)
(* is DZero (the sign of zero is not kept: -0 prints as "0" and equals 0). *)
(* A significand is held as four limbs of 14 bits, least significant       *)
(* first, so that every product of two limbs fits a 32-bit integer.        *)
(* Subnormal numbers, infinities and NaN do not arise from the finite      *)
(* inputs and non-zero constants used here.                                *)
(***************************************************************************)
Limb == 16384
HalfLimb == 8192

Zero4 == <<0, 0, 0, 0>>

\* 2^52 and 2^53
Two52 == <<0, 0, 0, 1024>>
Two53 == <<0, 0, 0, 2048>>

DZero == <<1, Zero4, 0>>

\* Column sums to limbs: the carry of each column moves to the next one, and
\* the last column keeps what is left (it is negative if the number is).
RECURSIVE Carry(_, _)
Carry(columns, carry) ==
    IF Len(columns) = 1 THEN <<columns[1] + carry>>
    ELSE <<(columns[1] + carry) % Limb>>
         \o Carry(Tail(columns), (columns[1] + carry) \div Limb)

Twice4(m) == Carry(<<2 * m[1], 2 * m[2], 2 * m[3], 2 * m[4]>>, 0)

Half4(m) ==
    <<m[1] \div 2 + (m[2] % 2) * HalfLimb,
      m[2] \div 2 + (m[3] % 2) * HalfLimb,
      m[3] \div 2 + (m[4] % 2) * HalfLimb,
      m[4] \div 2>>

Inc4(m) == Carry(m, 1)

Less4(a, b) ==
    IF a[4] # b[4] THEN a[4] < b[4]
    ELSE IF a[3] # b[3] THEN a[3] < b[3]
    ELSE IF a[2] # b[2] THEN a[2] < b[2]
    ELSE a[1] < b[1]

\* a - b for a >= b
Sub4(a, b) == Carry(<<a[1] - b[1], a[2] - b[2], a[3] - b[3], a[4] - b[4]>>, 0)

\* The natural m * 2^e (m > 0) with its significand brought up to 53 bits.
RECURSIVE Grow(_, _)
Grow(m, e) ==
    IF ~Less4(m, Two52) THEN <<m, e>>
    ELSE IF m[4] = 0 /\ m[3] < 2048 THEN Grow(<<0, m[1], m[2], m[3]>>, e - 14)
    ELSE Grow(Twice4(m), e - 1)

Signed(s, g) == <<s, g[1], g[2]>>

\* The limbs of a natural below 2^31
Limbs(a) == <<a % Limb, (a \div Limb) % Limb, a \div (Limb * Limb), 0>>

\* The double of an integer of magnitude below 2^31.
FromInt(k) ==
    IF k = 0 THEN DZero
    ELSE Signed(IF k < 0 THEN -1 ELSE 1, Grow(Limbs(Abs(k)), 0))

\* Round to nearest, ties to even: m is the significand truncated, `round`
\* the first bit dropped and `sticky` whether any later bit was set.
RoundEven(s, m, e, round, sticky) ==
    IF round = 1 /\ (sticky \/ m[1] % 2 = 1)
    THEN (IF Inc4(m) = Two53 THEN <<s, Two52, e + 1>> ELSE <<s, Inc4(m), e>>)
    ELSE <<s, m, e>>

\* The double sign * p * 2^e / (lo * Limb^3) for eight limbs p whose leading
\* bit makes the quotient a 53-bit significand: the limbs from the bit lo of
\* p[4] upward are kept and the bits below decide the rounding.
Cut(s, p, e, lo) ==
    RoundEven(s,
              <<p[4] \div lo + (p[5] % lo) * (Limb \div lo),
                p[5] \div lo + (p[6] % lo) * (Limb \div lo),
                p[6] \div lo + (p[7] % lo) * (Limb \div lo),
                p[7] \div lo + (p[8] % lo) * (Limb \div lo)>>,
              e,
              (p[4] \div (lo \div 2)) % 2,
              p[1] # 0 \/ p[2] # 0 \/ p[3] # 0 \/ p[4] % (lo \div 2) # 0)

\* The product of two significands, eight limbs
Product(a, b) ==
    Carry(<<a[1] * b[1],
            a[1] * b[2] + a[2] * b[1],
            a[1] * b[3] + a[2] * b[2] + a[3] * b[1],
            a[1] * b[4] + a[2] * b[3] + a[3] * b[2] + a[4] * b[1],
            a[2] * b[4] + a[3] * b[3] + a[4] * b[2],
            a[3] * b[4] + a[4] * b[3],
            a[4] * b[4],
            0>>, 0)

\* The product p of two significands rounded to 53 bits: it has 106 bits
\* when bit 105 (bit 7 of p[8]) is set and 105 otherwise.
RoundProduct(s, p, e) ==
    IF p[8] >= 128 THEN Cut(s, p, e + 53, 2048) ELSE Cut(s, p, e + 52, 1024)

\* x * y
Times(x, y) ==
    IF x[2] = Zero4 \/ y[2] = Zero4 THEN DZero
    ELSE RoundProduct(x[1] * y[1], Product(x[2], y[2]), x[3] + y[3])

\* 8 * m: a significand moved up so that its top limb is at least HalfLimb.
Times8(m) == Carry(<<8 * m[1], 8 * m[2], 8 * m[3], 8 * m[4]>>, 0)

\* r * Limb - g * d as five limbs, the top one negative if g is too large
Rest(r, d, g) ==
    Carry(<<0 - g * d[1], r[1] - g * d[2], r[2] - g * d[3], r[3] - g * d[4],
            r[4]>>, 0)

\* The first of g, g - 1, g - 2 that leaves a remainder that is not negative
Corrected(g, r0, r1, r2) ==
    IF r0[5] >= 0 THEN <<g, SubSeq(r0, 1, 4)>>
    ELSE IF r1[5] >= 0 THEN <<g - 1, SubSeq(r1, 1, 4)>>
    ELSE <<g - 2, SubSeq(r2, 1, 4)>>

Estimated(r, d, g) ==
    Corrected(g, Rest(r, d, g), Rest(r, d, g - 1), Rest(r, d, g - 2))

\* One digit of long division: for r < d (four limbs, top limb of d at least
\* HalfLimb), <<floor(r * Limb / d), r * Limb - that * d>>.  The digit is
\* estimated from the two leading limbs, which is never too small and at
\* most 2 too large, and then corrected.
DivDigit(r, d) ==
    Estimated(r, d, IF (r[4] * Limb + r[3]) \div d[4] >= Limb THEN Limb - 1
                    ELSE (r[4] * Limb + r[3]) \div d[4])

\* k digits of r * Limb^k / d for r < d, the leading digit first, and then
\* the remainder
RECURSIVE LongDiv(_, _, _)
RECURSIVE LongDivOn(_, _, _)
LongDivOn(step, d, k) == <<step[1]>> \o LongDiv(step[2], d, k - 1)

LongDiv(r, d, k) ==
    IF k = 0 THEN <<r>> ELSE LongDivOn(DivDigit(r, d), d, k)

\* The 56 bits of a * 2^56 / b below its leading bit `top`, as the limbs Cut
\* takes; the lowest limb tells whether the division left a remainder.
Digits(q, top) ==
    <<IF q[5] = Zero4 THEN 0 ELSE 1, 0, 0, q[4], q[3], q[2], q[1], top>>

\* The quotient a * 2^56 / b of two significands rounded to 53 bits: it has
\* 57 bits if a >= b and 56 otherwise.
Quotient(s, a, b, e) ==
    IF Less4(a, b) THEN Cut(s, Digits(LongDiv(a, b, 4), 0), e - 53, 8)
    ELSE Cut(s, Digits(LongDiv(Sub4(a, b), b, 4), 1), e - 52, 16)

\* x / y for y # 0
Over(x, y) ==
    IF x[2] = Zero4 THEN DZero
    ELSE Quotient(x[1] * y[1], Times8(x[2]), Times8(y[2]), x[3] - y[3])

\* m shifted right by k bits: <<quotient, first bit dropped, any later bit set>>
RECURSIVE ShiftRight(_, _, _, _)
ShiftRight(m, k, round, sticky) ==
    IF k = 0 \/ (m = Zero4 /\ round = 0) THEN <<m, round, sticky>>
    ELSE IF k >= 14
    THEN ShiftRight(<<m[2], m[3], m[4], 0>>, k - 14, m[1] \div HalfLimb,
                    sticky \/ round = 1 \/ m[1] % HalfLimb # 0)
    ELSE ShiftRight(Half4(m), k - 1, m[1] % 2, sticky \/ round = 1)

\* The integer part and the fraction of |x| for |x| < 2^31:
\* <<integer part, whether the fraction is at least 1/2, whether the
\*   fraction is neither 0 nor 1/2>>
Parts(sh) == <<sh[1][1] + Limb * sh[1][2] + Limb * Limb * sh[1][3], sh[2], sh[3]>>

Split(x) == Parts(ShiftRight(x[2], -x[3], 0, FALSE))

NoFraction(parts) == parts[2] = 0 /\ ~parts[3]

\* Number.isInteger
IsInteger(x) == x[3] >= 0 \/ NoFraction(Split(x))

\* The nearest integer to sign * (parts), halves toward +infinity
Nearest(s, parts) ==
    IF s > 0 THEN parts[1] + parts[2]
    ELSE -(parts[1] + (IF parts[2] = 1 /\ parts[3] THEN 1 ELSE 0))

\* Math.round for magnitudes below 2^31
MathRound(x) == Nearest(x[1], Split(x))

\* |u| < |v|
LessMagnitude(u, v) ==
    IF v[2] = Zero4 THEN FALSE
    ELSE IF u[2] = Zero4 THEN TRUE
    ELSE IF u[3] # v[3] THEN u[3] < v[3]
    ELSE Less4(u[2], v[2])

Negative(u) == u[1] < 0 /\ u[2] # Zero4

\* x < y
Less(x, y) ==
    IF Negative(x) THEN (IF Negative(y) THEN LessMagnitude(y, x) ELSE TRUE)
    ELSE (IF Negative(y) THEN FALSE ELSE LessMagnitude(x, y))

\* The double nearest to the rational r = <<n, d>>: what a decimal literal
\* denotes, and the quotient of two integers.
Double(r) == Over(FromInt(r[1]), FromInt(r[2]))

(***************************************************************************)
(* unitConversion.ts                                                       *)
(***************************************************************************)
\* Mutant of ML_PER_TSP: the US customary teaspoon instead of the metric one.
ML_PER_TSP_Customary == Double(Rat(492892, 100000))

ML_PER_TSP == Double(Num(5))
ML_PER_TBSP == Double(Num(15))
ML_PER_FL_OZ == Double(Rat(295735, 10000))
LBS_PER_KG == Double(Rat(220462, 100000))

\* Mutant of KG_PER_LB: derived from LBS_PER_KG instead of the literal.
KG_PER_LB_Derived == Over(FromInt(1), LBS_PER_KG)

KG_PER_LB == Double(Rat(453592, 1000000))

VolumeUnit == {"mL", "tsp", "tbsp", "fl oz"}
WeightUnit == {"kg", "lbs"}
UnitSystem == {"metric", "imperial"}

\* smartRound: whole numbers stay whole, else 1 decimal from 10 up, else 2.
smartRound(value) ==
    IF IsInteger(value) THEN value
    ELSE IF ~Less(value, FromInt(10))
         THEN Over(FromInt(MathRound(Times(value, FromInt(10)))), FromInt(10))
         ELSE Over(FromInt(MathRound(Times(value, FromInt(100)))), FromInt(100))

\* The decimal digits JavaScript prints for a double: the shortest decimal
\* that reads back as the same double.  For a number of at most two
\* decimals (every smartRound result) that is the integer, else n/10 if it
\* reads back as x, else n/100.
NumberToString(x) ==
    LET tenths == MathRound(Times(x, FromInt(10)))
        hundredths == MathRound(Times(x, FromInt(100)))
        sign == IF x[1] < 0 THEN "-" ELSE ""
    IN  IF IsInteger(x) THEN ToString(MathRound(x))
        ELSE IF Over(FromInt(tenths), FromInt(10)) = x
             THEN sign \o ToString(Abs(tenths) \div 10) \o "."
                       \o ToString(Abs(tenths) % 10)
             ELSE sign \o ToString(Abs(hundredths) \div 100) \o "."
                       \o ToString((Abs(hundredths) % 100) \div 10)
                       \o ToString(Abs(hundredths) % 10)

formatWithUnit(value, unit) ==
    LET rounded == smartRound(value)
    IN  NumberToString(rounded) \o " " \o unit

mlToTsp(mL) ==
    LET value == Over(mL, ML_PER_TSP)
    IN  [value |-> smartRound(value), unit |-> "tsp",
         formatted |-> formatWithUnit(value, "tsp")]

tspToMl(tsp) ==
    LET value == Times(tsp, ML_PER_TSP)
    IN  [value |-> smartRound(value), unit |-> "mL",
         formatted |-> formatWithUnit(value, "mL")]

mlToTbsp(mL) ==
    LET value == Over(mL, ML_PER_TBSP)
    IN  [value |-> smartRound(value), unit |-> "tbsp",
         formatted |-> formatWithUnit(value, "tbsp")]

tbspToMl(tbsp) ==
    LET value == Times(tbsp, ML_PER_TBSP)
    IN  [value |-> smartRound(value), unit |-> "mL",
         formatted |-> formatWithUnit(value, "mL")]

\* Mutant of mlToFlOz: the formatted text is built with another label than
\* the unit field.
mlToFlOz_UnitMismatch(mL) ==
    LET value == Over(mL, ML_PER_FL_OZ)
    IN  [value |-> smartRound(value), unit |-> "fl oz",
         formatted |-> formatWithUnit(value, "oz")]

mlToFlOz(mL) ==
    LET value == Over(mL, ML_PER_FL_OZ)
    IN  [value |-> smartRound(value), unit |-> "fl oz",
         formatted |-> formatWithUnit(value, "fl oz")]

flOzToMl(flOz) ==
    LET value == Times(flOz, ML_PER_FL_OZ)
    IN  [value |-> smartRound(value), unit |-> "mL",
         formatted |-> formatWithUnit(value, "mL")]

kgToLbs(kg) ==
    LET value == Times(kg, LBS_PER_KG)
    IN  [value |-> smartRound(value), unit |-> "lbs",
         formatted |-> formatWithUnit(value, "lbs")]

lbsToKg(lbs) ==
    LET value == Times(lbs, KG_PER_LB)
    IN  [value |-> smartRound(value), unit |-> "kg",
         formatted |-> formatWithUnit(value, "kg")]

\* Mutant of convertVolume: the mL pivot is smart-rounded before the second
\* conversion.
convertVolume_RoundedPivot(value, from, to) ==
    LET mL == CASE from = "mL" -> smartRound(value)
                [] from = "tsp" -> tspToMl(value).value
                [] from = "tbsp" -> tbspToMl(value).value
                [] from = "fl oz" -> flOzToMl(value).value
    IN  CASE to = "mL" -> [value |-> smartRound(mL), unit |-> "mL",
                           formatted |-> formatWithUnit(mL, "mL")]
          [] to = "tsp" -> mlToTsp(mL)
          [] to = "tbsp" -> mlToTbsp(mL)
          [] to = "fl oz" -> mlToFlOz(mL)

convertVolume(value, from, to) ==
    LET mL == CASE from = "mL" -> value
                [] from = "tsp" -> Times(value, ML_PER_TSP)
                [] from = "tbsp" -> Times(value, ML_PER_TBSP)
                [] from = "fl oz" -> Times(value, ML_PER_FL_OZ)
    IN  CASE to = "mL" -> [value |-> smartRound(mL), unit |-> "mL",
                           formatted |-> formatWithUnit(mL, "mL")]
          [] to = "tsp" -> mlToTsp(mL)
          [] to = "tbsp" -> mlToTbsp(mL)
          [] to = "fl oz" -> mlToFlOz(mL)

convertWeight(value, from, to) ==
    IF from = to
    THEN [value |-> smartRound(value), unit |-> to,
          formatted |-> formatWithUnit(value, to)]
    ELSE IF from = "kg" /\ to = "lbs" THEN kgToLbs(value)
    ELSE lbsToKg(value)

\* Mutant of getVolumeInSystem: 3 tbsp itself still counts as a small amount.
getVolumeInSystem_InclusiveTsp(mL, system) ==
    IF system = "metric"
    THEN [value |-> smartRound(mL), unit |-> "mL",
          formatted |-> formatWithUnit(mL, "mL")]
    ELSE LET tbsp == Over(mL, ML_PER_TBSP)
             flOz == Over(mL, ML_PER_FL_OZ)
         IN  IF ~Less(FromInt(3), tbsp) THEN mlToTsp(mL)
             ELSE IF Less(flOz, FromInt(4)) THEN mlToTbsp(mL)
             ELSE mlToFlOz(mL)

getVolumeInSystem(mL, system) ==
    IF system = "metric"
    THEN [value |-> smartRound(mL), unit |-> "mL",
          formatted |-> formatWithUnit(mL, "mL")]
    ELSE LET tbsp == Over(mL, ML_PER_TBSP)
             flOz == Over(mL, ML_PER_FL_OZ)
         IN  IF Less(tbsp, FromInt(3)) THEN mlToTsp(mL)
             ELSE IF Less(flOz, FromInt(4)) THEN mlToTbsp(mL)
             ELSE mlToFlOz(mL)

\* Mutant of getWeightInSystem: the test of the system is inverted.
getWeightInSystem_Inverted(kg, system) ==
    IF system # "metric"
    THEN [value |-> smartRound(kg), unit |-> "kg",
          formatted |-> formatWithUnit(kg, "kg")]
    ELSE kgToLbs(kg)

getWeightInSystem(kg, system) ==
    IF system = "metric"
    THEN [value |-> smartRound(kg), unit |-> "kg",
          formatted |-> formatWithUnit(kg, "kg")]
    ELSE kgToLbs(kg)

\* Mutant of formatVolumeWithEquivalent: the equivalent is always teaspoons.
formatVolumeWithEquivalent_TspOnly(mL) ==
    LET imperial == mlToTsp(mL)
    IN  NumberToString(smartRound(mL)) \o " mL (" \o imperial.formatted \o ")"

formatVolumeWithEquivalent(mL) ==
    LET imperial == getVolumeInSystem(mL, "imperial")
    IN  NumberToString(smartRound(mL)) \o " mL (" \o imperial.formatted \o ")"

formatWeightWithEquivalent(kg) ==
    LET imperial == kgToLbs(kg)
    IN  NumberToString(smartRound(kg)) \o " kg (" \o imperial.formatted \o ")"

(***************************************************************************)
(* Text primitives.                                                        *)
(***************************************************************************)
Char(s, i) == SubSeq(s, i, i)

LowerCaseLetters == "abcdefghijklmnopqrstuvwxyz"
UpperCaseLetters == "ABCDEFGHIJKLMNOPQRSTUVWXYZ"

\* The upper-case letter of each lower-case letter.
UpperCaseOf ==
    [c \in {Char(LowerCaseLetters, i) : i \in 1..Len(LowerCaseLetters)} |->
        Char(UpperCaseLetters,
             CHOOSE i \in 1..Len(LowerCaseLetters) : Char(LowerCaseLetters, i) = c)]

\* One character of String.prototype.toUpperCase (ASCII letters).
UpperChar(c) == IF c \in DOMAIN UpperCaseOf THEN UpperCaseOf[c] ELSE c

RECURSIVE toUpperCase(_)
toUpperCase(s) ==
    IF Len(s) = 0 THEN ""
    ELSE UpperChar(Char(s, 1)) \o toUpperCase(SubSeq(s, 2, Len(s)))

\* String.prototype.includes
includes(s, sub) ==
    \E i \in 1..(Len(s) - Len(sub) + 1) : SubSeq(s, i, i + Len(sub) - 1) = sub

\* The regular expression classes \d and \s.
IsDigit(c) == c \in {"0", "1", "2", "3", "4", "5", "6", "7", "8", "9"}

IsSpace(c) == c \in {" ", "\t", "\n", "\r", "\f"}

DigitValue(c) ==
    CASE c = "0" -> 0 [] c = "1" -> 1 [] c = "2" -> 2 [] c = "3" -> 3
      [] c = "4" -> 4 [] c = "5" -> 5 [] c = "6" -> 6 [] c = "7" -> 7
      [] c = "8" -> 8 [] c = "9" -> 9

\* parseInt(digits, 10) for a string of decimal digits.
RECURSIVE parseInt(_)
parseInt(digits) ==
    IF Len(digits) = 0 THEN 0
    ELSE 10 * parseInt(SubSeq(digits, 1, Len(digits) - 1))
           + DigitValue(Char(digits, Len(digits)))

\* \d+ and \s* are greedy: they run to the first character outside the class.
\* Giving characters back never helps these patterns, because what follows a
\* shorter run is again a character of the class, which the next element of
\* the pattern ('-', a digit or a letter) does not match.
RECURSIVE SkipDigits(_, _)
SkipDigits(s, i) ==
    IF i <= Len(s) /\ IsDigit(Char(s, i)) THEN SkipDigits(s, i + 1) ELSE i

RECURSIVE SkipSpaces(_, _)
SkipSpaces(s, i) ==
    IF i <= Len(s) /\ IsSpace(Char(s, i)) THEN SkipSpaces(s, i + 1) ELSE i

\* The literal `word` at position i, ignoring case (the /i flag).
WordAt(s, i, word) ==
    /\ i + Len(word) - 1 <= Len(s)
    /\ toUpperCase(SubSeq(s, i, i + Len(word) - 1)) = toUpperCase(word)

Max(S) == CHOOSE x \in S : \A y \in S : x >= y

Min(S) == CHOOSE x \in S : \A y \in S : x <= y

(***************************************************************************)
(* quantityCalculator.ts                                                   *)
(***************************************************************************)
\* Mutant of FREQUENCY_OPTIONS: the fixed 6-hour interval is listed before
\* the 4-to-6-hour range.
FREQUENCY_OPTIONS_IntervalsFirst ==
    << [value |-> "daily",  label |-> "Once daily",              perDay |-> Num(1)],
       [value |-> "BID",    label |-> "Twice daily (BID)",       perDay |-> Num(2)],
       [value |-> "TID",    label |-> "Three times daily (TID)", perDay |-> Num(3)],
       [value |-> "QID",    label |-> "Four times daily (QID)",  perDay |-> Num(4)],
       [value |-> "q6h",    label |-> "Every 6 hours",           perDay |-> Num(4)],
       [value |-> "q4-6h",  label |-> "Every 4-6 hours",         perDay |-> Num(6)],
       [value |-> "q8h",    label |-> "Every 8 hours",           perDay |-> Num(3)],
       [value |-> "q12h",   label |-> "Every 12 hours",          perDay |-> Num(2)],
       [value |-> "weekly", label |-> "Once weekly",             perDay |-> Rat(1, 7)],
       [value |-> "prn",    label |-> "As needed (PRN)",         perDay |-> Num(6)] >>

\* The array literal the module exports.
FREQUENCY_OPTIONS ==
    << [value |-> "daily",  label |-> "Once daily",              perDay |-> Num(1)],
       [value |-> "BID",    label |-> "Twice daily (BID)",       perDay |-> Num(2)],
       [value |-> "TID",    label |-> "Three times daily (TID)", perDay |-> Num(3)],
       [value |-> "QID",    label |-> "Four times daily (QID)",  perDay |-> Num(4)],
       [value |-> "q4-6h",  label |-> "Every 4-6 hours",         perDay |-> Num(6)],
       [value |-> "q6h",    label |-> "Every 6 hours",           perDay |-> Num(4)],
       [value |-> "q8h",    label |-> "Every 8 hours",           perDay |-> Num(3)],
       [value |-> "q12h",   label |-> "Every 12 hours",          perDay |-> Num(2)],
       [value |-> "weekly", label |-> "Once weekly",             perDay |-> Rat(1, 7)],
       [value |-> "prn",    label |-> "As needed (PRN)",         perDay |-> Num(6)] >>

MedicationForm == {"tablet", "capsule", "liquid", "injection", "topical", "inhaler"}

FORM_UNITS ==
    [form \in MedicationForm |->
        CASE form = "tablet"    -> "tablets"
          [] form = "capsule"   -> "capsules"
          [] form = "liquid"    -> "mL"
          [] form = "inhaler"   -> "puffs"
          [] form = "injection" -> "doses"
          [] form = "topical"   -> "applications"]

\* FORM_UNITS is an object literal, so FORM_UNITS[key] also finds the members
\* it inherits from Object.prototype; each of them is a truthy non-string.
ObjectPrototypeKeys ==
    {"constructor", "toString", "toLocaleString", "valueOf", "hasOwnProperty",
     "isPrototypeOf", "propertyIsEnumerable", "__proto__"}

InheritedMember(key) == "[Object.prototype." \o key \o "]"

\* The groups of /(\d+)\s*-\s*(\d+)\s*(tablet|capsule|puff|dose)/i matched
\* from position i, or <<>> when the pattern does not match there.
UnitAlternatives == <<"tablet", "capsule", "puff", "dose">>

UnitAt(s, i) ==
    {k \in DOMAIN UnitAlternatives : WordAt(s, i, UnitAlternatives[k])}

RangeAt(s, i) ==
    LET a == SkipDigits(s, i)
        h == SkipSpaces(s, a)
        b == SkipSpaces(s, h + 1)
        c == SkipDigits(s, b)
        u == SkipSpaces(s, c)
    IN  IF /\ a > i
           /\ h <= Len(s) /\ Char(s, h) = "-"
           /\ c > b
           /\ UnitAt(s, u) # {}
        THEN <<SubSeq(s, i, a - 1), SubSeq(s, b, c - 1),
               SubSeq(s, u, u + Len(UnitAlternatives[Min(UnitAt(s, u))]) - 1)>>
        ELSE <<>>

\* The groups of /(\d+)\s*(tablet|capsule|puff|dose)/i matched from position i.
SingleAt(s, i) ==
    LET a == SkipDigits(s, i)
        u == SkipSpaces(s, a)
    IN  IF a > i /\ UnitAt(s, u) # {}
        THEN <<SubSeq(s, i, a - 1),
               SubSeq(s, u, u + Len(UnitAlternatives[Min(UnitAt(s, u))]) - 1)>>
        ELSE <<>>

\* The groups of /(\d+)\s*puff/i matched from position i.
PuffAt(s, i) ==
    LET a == SkipDigits(s, i)
        u == SkipSpaces(s, a)
    IN  IF a > i /\ WordAt(s, u, "puff")
        THEN <<SubSeq(s, i, a - 1)>>
        ELSE <<>>

\* String.prototype.match without the g flag: the match at the leftmost
\* position where the pattern matches, or <<>> (null) when there is none.
rangeMatch(dosingString) ==
    LET at == {i \in 1..Len(dosingString) : RangeAt(dosingString, i) # <<>>}
    IN  IF at = {} THEN <<>> ELSE RangeAt(dosingString, Min(at))

\* Mutant of singleMatch: takes the last position that matches, not the first.
singleMatch_Last(dosingString) ==
    LET at == {i \in 1..Len(dosingString) : SingleAt(dosingString, i) # <<>>}
    IN  IF at = {} THEN <<>> ELSE SingleAt(dosingString, Max(at))

singleMatch(dosingString) ==
    LET at == {i \in 1..Len(dosingString) : SingleAt(dosingString, i) # <<>>}
    IN  IF at = {} THEN <<>> ELSE SingleAt(dosingString, Min(at))

puffMatch(dosingString) ==
    LET at == {i \in 1..Len(dosingString) : PuffAt(dosingString, i) # <<>>}
    IN  IF at = {} THEN <<>> ELSE PuffAt(dosingString, Min(at))

\* Mutant of parseDosesPerAdmin: no separate default for inhalers.
parseDosesPerAdmin_OneDefault(dosingString, form) ==
    LET range == rangeMatch(dosingString)
        single == singleMatch(dosingString)
    IN  IF range # <<>> THEN parseInt(range[2])
        ELSE IF single # <<>> THEN parseInt(single[1])
        ELSE 1

parseDosesPerAdmin(dosingString, form) ==
    LET range == rangeMatch(dosingString)
        single == singleMatch(dosingString)
        puff == puffMatch(dosingString)
    IN  IF range # <<>> THEN parseInt(range[2])
        ELSE IF single # <<>> THEN parseInt(single[1])
        ELSE IF form = "inhaler"
        THEN IF puff # <<>> THEN parseInt(puff[1]) ELSE 2
        ELSE 1

\* Mutant of parseFrequencyFromDosing: the DAILY/ONCE group is tested first.
parseFrequencyFromDosing_DailyFirst(dosingString) ==
    LET dosing == toUpperCase(dosingString)
    IN  IF includes(dosing, "DAILY") \/ includes(dosing, "ONCE") THEN "daily"
        ELSE IF includes(dosing, "TID") \/ includes(dosing, "THREE TIMES") THEN "TID"
        ELSE IF includes(dosing, "BID") \/ includes(dosing, "TWICE") THEN "BID"
        ELSE IF includes(dosing, "QID") \/ includes(dosing, "FOUR TIMES") THEN "QID"
        ELSE IF includes(dosing, "EVERY 4-6") \/ includes(dosing, "Q4-6") THEN "q4-6h"
        ELSE IF includes(dosing, "EVERY 6") \/ includes(dosing, "Q6H") THEN "q6h"
        ELSE IF includes(dosing, "EVERY 8") \/ includes(dosing, "Q8H") THEN "q8h"
        ELSE IF includes(dosing, "EVERY 12") \/ includes(dosing, "Q12H") THEN "q12h"
        ELSE IF includes(dosing, "WEEKLY") THEN "weekly"
        ELSE IF includes(dosing, "PRN") \/ includes(dosing, "AS NEEDED") THEN "prn"
        ELSE Null

\* Mutant of parseFrequencyFromDosing: the as-needed code is returned in the
\* spelling of the keyword, "PRN".
parseFrequencyFromDosing_KeywordCase(dosingString) ==
    LET dosing == toUpperCase(dosingString)
    IN  IF includes(dosing, "TID") \/ includes(dosing, "THREE TIMES") THEN "TID"
        ELSE IF includes(dosing, "BID") \/ includes(dosing, "TWICE") THEN "BID"
        ELSE IF includes(dosing, "QID") \/ includes(dosing, "FOUR TIMES") THEN "QID"
        ELSE IF includes(dosing, "EVERY 4-6") \/ includes(dosing, "Q4-6") THEN "q4-6h"
        ELSE IF includes(dosing, "EVERY 6") \/ includes(dosing, "Q6H") THEN "q6h"
        ELSE IF includes(dosing, "EVERY 8") \/ includes(dosing, "Q8H") THEN "q8h"
        ELSE IF includes(dosing, "EVERY 12") \/ includes(dosing, "Q12H") THEN "q12h"
        ELSE IF includes(dosing, "WEEKLY") THEN "weekly"
        ELSE IF includes(dosing, "PRN") \/ includes(dosing, "AS NEEDED") THEN "PRN"
        ELSE IF includes(dosing, "DAILY") \/ includes(dosing, "ONCE") THEN "daily"
        ELSE Null

parseFrequencyFromDosing(dosingString) ==
    LET dosing == toUpperCase(dosingString)
    IN  IF includes(dosing, "TID") \/ includes(dosing, "THREE TIMES") THEN "TID"
        ELSE IF includes(dosing, "BID") \/ includes(dosing, "TWICE") THEN "BID"
        ELSE IF includes(dosing, "QID") \/ includes(dosing, "FOUR TIMES") THEN "QID"
        ELSE IF includes(dosing, "EVERY 4-6") \/ includes(dosing, "Q4-6") THEN "q4-6h"
        ELSE IF includes(dosing, "EVERY 6") \/ includes(dosing, "Q6H") THEN "q6h"
        ELSE IF includes(dosing, "EVERY 8") \/ includes(dosing, "Q8H") THEN "q8h"
        ELSE IF includes(dosing, "EVERY 12") \/ includes(dosing, "Q12H") THEN "q12h"
        ELSE IF includes(dosing, "WEEKLY") THEN "weekly"
        ELSE IF includes(dosing, "PRN") \/ includes(dosing, "AS NEEDED") THEN "prn"
        ELSE IF includes(dosing, "DAILY") \/ includes(dosing, "ONCE") THEN "daily"
        ELSE Null

\* Mutant of getFrequencyPerDay: compares the codes ignoring case.
getFrequencyPerDay_IgnoreCase(frequency) ==
    LET found == {i \in DOMAIN frequencyOptions :
                      toUpperCase(frequencyOptions[i].value) = toUpperCase(frequency)}
    IN  IF found = {} THEN Num(1) ELSE frequencyOptions[Min(found)].perDay

\* FREQUENCY_OPTIONS.find(...)?.perDay ?? 1, reading the array as it is now.
getFrequencyPerDay(frequency) ==
    LET found == {i \in DOMAIN frequencyOptions :
                      frequencyOptions[i].value = frequency}
    IN  IF found = {} THEN Num(1) ELSE frequencyOptions[Min(found)].perDay

\* FORM_UNITS[form] || 'units'
getUnitForForm(form) ==
    IF form \in DOMAIN FORM_UNITS THEN FORM_UNITS[form]
    ELSE IF form \in ObjectPrototypeKeys THEN InheritedMember(form)
    ELSE "units"

\* Mutant of isEstimate: derives the flag from the administrations per day.
isEstimate_FromPerDay(frequency) == RatGe(getFrequencyPerDay(frequency), Num(4))

isEstimate(frequency) == frequency = "prn" \/ frequency = "q4-6h"

\* Mutant of calculateQuantity: converts the raw product, not the rounded one.
calculateQuantity_ImperialFromRaw(frequency, durationDays, dosesPerAdmin, form) ==
    LET perDay == getFrequencyPerDay(frequency)
        unit == getUnitForForm(form)
        rawQuantity == RatMul(RatMul(Num(dosesPerAdmin), perDay), Num(durationDays))
        quantity == MathCeil(rawQuantity)
        imperialEquivalent ==
            IF form = "liquid" THEN getVolumeInSystem(Double(rawQuantity), "imperial")
            ELSE Undefined
    IN  [quantity |-> quantity, unit |-> unit,
         isEstimate |-> isEstimate(frequency),
         imperialEquivalent |-> imperialEquivalent]

\* Mutant of calculateQuantity: counts the days inclusively (durationDays + 1).
calculateQuantity_InclusiveDays(frequency, durationDays, dosesPerAdmin, form) ==
    LET perDay == getFrequencyPerDay(frequency)
        unit == getUnitForForm(form)
        rawQuantity ==
            RatMul(RatMul(Num(dosesPerAdmin), perDay), Num(durationDays + 1))
        quantity == MathCeil(rawQuantity)
        imperialEquivalent ==
            IF form = "liquid" THEN getVolumeInSystem(FromInt(quantity), "imperial")
            ELSE Undefined
    IN  [quantity |-> quantity, unit |-> unit,
         isEstimate |-> isEstimate(frequency),
         imperialEquivalent |-> imperialEquivalent]

\* Mutant of calculateQuantity: the daily amount is divided by a positive
\* duration instead of multiplied by it.
calculateQuantity_DividedByDays(frequency, durationDays, dosesPerAdmin, form) ==
    LET perDay == getFrequencyPerDay(frequency)
        unit == getUnitForForm(form)
        rawQuantity ==
            IF durationDays > 0
            THEN RatDiv(RatMul(Num(dosesPerAdmin), perDay), Num(durationDays))
            ELSE RatMul(RatMul(Num(dosesPerAdmin), perDay), Num(durationDays))
        quantity == MathCeil(rawQuantity)
        imperialEquivalent ==
            IF form = "liquid" THEN getVolumeInSystem(FromInt(quantity), "imperial")
            ELSE Undefined
    IN  [quantity |-> quantity, unit |-> unit,
         isEstimate |-> isEstimate(frequency),
         imperialEquivalent |-> imperialEquivalent]

calculateQuantity(frequency, durationDays, dosesPerAdmin, form) ==
    LET perDay == getFrequencyPerDay(frequency)
        unit == getUnitForForm(form)
        rawQuantity == RatMul(RatMul(Num(dosesPerAdmin), perDay), Num(durationDays))
        quantity == MathCeil(rawQuantity)
        imperialEquivalent ==
            IF form = "liquid" THEN getVolumeInSystem(FromInt(quantity), "imperial")
            ELSE Undefined
    IN  [quantity |-> quantity, unit |-> unit,
         isEstimate |-> isEstimate(frequency),
         imperialEquivalent |-> imperialEquivalent]

(***************************************************************************)
(* The inputs checked.                                                     *)
(***************************************************************************)
CatalogCodes == {FREQUENCY_OPTIONS[i].value : i \in DOMAIN FREQUENCY_OPTIONS}

\* Catalog codes, and strings that are no catalog code (the parameter is a
\* plain string): other spellings of a code, an unlisted code, the empty string.
FrequencyInputs == CatalogCodes \cup {"tid", "PRN", "Q4-6H", "hourly", ""}

\* The six forms, and other strings: `form` reaches the calculator through a
\* cast of the search result's `form: string`.
FormInputs == MedicationForm \cup {"cream", "", "constructor"}

DurationInputs == (-MaxNegative)..MaxDuration

DosesInputs == (-MaxNegative)..MaxDoses

\* Every concatenation of at most n fragments of F.
RECURSIVE TextsUpTo(_, _)
TextsUpTo(F, n) ==
    IF n = 0 THEN {""}
    ELSE LET T == TextsUpTo(F, n - 1)
         IN  T \cup {t \o f : t \in T, f \in F}

\* The dosing strings the source's comments give as examples.
ExampleDosings ==
    {"500mg TID", "10mg daily", "every 4-6 hours PRN",
     "2 puffs every 4-6 hours", "1-2 tablets every 4-6 hours",
     "500mg TWICE daily"}

DoseFragments ==
    {"0", "1", "2", "-", " ", "-1", "1 - 2 ", ".", "mg ", "tablet", " Puffs",
     "capsules", "3 doses, "}

DoseTexts == TextsUpTo(DoseFragments, MaxDoseFrags) \cup ExampleDosings

FrequencyFragments ==
    {"tid", "Three Times", "BID", "twice", "qid", "four times",
     "every 4-6", "q4-6", "every 6", "Q6H", "every 8", "q8h",
     "every 12", "q12h", "weekly", "PRN", "as needed", "daily", "once",
     "500mg ", " ", "0", "h", "every", "6"}

FrequencyTexts == TextsUpTo(FrequencyFragments, MaxFreqFrags) \cup ExampleDosings

\* Volumes and weights: every quarter from -MaxNegative to MaxVolume (these
\* are doubles exactly), and the larger or decimal amounts the tests use.
ExampleNumbers == {Num(150), Num(167), Num(240), Num(1000), Rat(22, 10)}

NumberInputs ==
    {Rat(k, 4) : k \in (-4 * MaxNegative)..(4 * MaxVolume)} \cup ExampleNumbers

Calls ==
    [fn : {"mlToTsp"}, mL : NumberInputs]
    \cup [fn : {"tspToMl"}, tsp : NumberInputs]
    \cup [fn : {"mlToTbsp"}, mL : NumberInputs]
    \cup [fn : {"tbspToMl"}, tbsp : NumberInputs]
    \cup [fn : {"mlToFlOz"}, mL : NumberInputs]
    \cup [fn : {"flOzToMl"}, flOz : NumberInputs]
    \cup [fn : {"kgToLbs"}, kg : NumberInputs]
    \cup [fn : {"lbsToKg"}, lbs : NumberInputs]
    \cup [fn : {"convertVolume"}, value : NumberInputs,
          from : VolumeUnit, to : VolumeUnit]
    \cup [fn : {"convertWeight"}, value : NumberInputs,
          from : WeightUnit, to : WeightUnit]
    \cup [fn : {"getVolumeInSystem"}, mL : NumberInputs, system : UnitSystem]
    \cup [fn : {"getWeightInSystem"}, kg : NumberInputs, system : UnitSystem]
    \cup [fn : {"formatVolumeWithEquivalent"}, mL : NumberInputs]
    \cup [fn : {"formatWeightWithEquivalent"}, kg : NumberInputs]
    \cup
    [fn : {"calculateQuantity"}, frequency : FrequencyInputs,
     durationDays : DurationInputs, dosesPerAdmin : DosesInputs,
     form : FormInputs]
    \cup [fn : {"parseDosesPerAdmin"}, dosingString : DoseTexts,
          form : {"tablet", "inhaler", "liquid", "cream"}]
    \cup [fn : {"parseFrequencyFromDosing"}, dosingString : FrequencyTexts]
    \cup [fn : {"getFrequencyPerDay"}, frequency : FrequencyInputs]
    \cup [fn : {"getUnitForForm"}, form : FormInputs \cup ObjectPrototypeKeys]

NotReturned == [done |-> FALSE]

Returned(v) == [done |-> TRUE, value |-> v]

\* No earlier call is remembered.
NoEarlier == [seen |-> FALSE]

\* useState(null) of selectedMedication
NoMedication == [selected |-> FALSE]

\* PatientChartPage as first rendered, and medicationApi as loaded.
PageInit ==
    /\ selectedMedication = NoMedication
    /\ prescription = <<>>
    /\ searchQuery = ""
    /\ debouncedSearch = ""
    /\ searchResults = <<>>
    /\ isSearching = FALSE
    /\ pending = <<>>
    /\ searchCache = <<>>        \* new Map(): no key has an entry
    /\ now = 0

(***************************************************************************)
(* The state machine: a call is chosen, then the function is applied.      *)
(***************************************************************************)
Init ==
    /\ call \in Calls
    /\ ret = NotReturned
    /\ frequencyOptions = FREQUENCY_OPTIONS
    /\ earlier = NoEarlier
    /\ PageInit

CallCalculateQuantity ==
    /\ call.fn = "calculateQuantity"
    /\ ~ret.done
    /\ ret' = Returned(calculateQuantity(call.frequency, call.durationDays,
                                         call.dosesPerAdmin, call.form))
    /\ UNCHANGED <<call, frequencyOptions, earlier, pageVars>>

CallParseDosesPerAdmin ==
    /\ call.fn = "parseDosesPerAdmin"
    /\ ~ret.done
    /\ ret' = Returned(parseDosesPerAdmin(call.dosingString, call.form))
    /\ UNCHANGED <<call, frequencyOptions, earlier, pageVars>>

CallParseFrequencyFromDosing ==
    /\ call.fn = "parseFrequencyFromDosing"
    /\ ~ret.done
    /\ ret' = Returned(parseFrequencyFromDosing(call.dosingString))
    /\ UNCHANGED <<call, frequencyOptions, earlier, pageVars>>

\* Mutant of CallGetFrequencyPerDay: the lookup takes the first entry out of
\* the array (shift) instead of only reading it.
CallGetFrequencyPerDay_Shifting ==
    /\ call.fn = "getFrequencyPerDay"
    /\ ~ret.done
    /\ ret' = Returned(getFrequencyPerDay(call.frequency))
    /\ frequencyOptions' = Tail(frequencyOptions)
    /\ UNCHANGED <<call, earlier, pageVars>>

CallGetFrequencyPerDay ==
    /\ call.fn = "getFrequencyPerDay"
    /\ ~ret.done
    /\ ret' = Returned(getFrequencyPerDay(call.frequency))
    /\ UNCHANGED <<call, frequencyOptions, earlier, pageVars>>

CallGetUnitForForm ==
    /\ call.fn = "getUnitForForm"
    /\ ~ret.done
    /\ ret' = Returned(getUnitForForm(call.form))
    /\ UNCHANGED <<call, frequencyOptions, earlier, pageVars>>

CallMlToTsp ==
    /\ call.fn = "mlToTsp"
    /\ ~ret.done
    /\ ret' = Returned(mlToTsp(Double(call.mL)))
    /\ UNCHANGED <<call, frequencyOptions, earlier, pageVars>>

CallTspToMl ==
    /\ call.fn = "tspToMl"
    /\ ~ret.done
    /\ ret' = Returned(tspToMl(Double(call.tsp)))
    /\ UNCHANGED <<call, frequencyOptions, earlier, pageVars>>

CallMlToTbsp ==
    /\ call.fn = "mlToTbsp"
    /\ ~ret.done
    /\ ret' = Returned(mlToTbsp(Double(call.mL)))
    /\ UNCHANGED <<call, frequencyOptions, earlier, pageVars>>

CallTbspToMl ==
    /\ call.fn = "tbspToMl"
    /\ ~ret.done
    /\ ret' = Returned(tbspToMl(Double(call.tbsp)))
    /\ UNCHANGED <<call, frequencyOptions, earlier, pageVars>>

CallMlToFlOz ==
    /\ call.fn = "mlToFlOz"
    /\ ~ret.done
    /\ ret' = Returned(mlToFlOz(Double(call.mL)))
    /\ UNCHANGED <<call, frequencyOptions, earlier, pageVars>>

CallFlOzToMl ==
    /\ call.fn = "flOzToMl"
    /\ ~ret.done
    /\ ret' = Returned(flOzToMl(Double(call.flOz)))
    /\ UNCHANGED <<call, frequencyOptions, earlier, pageVars>>

CallKgToLbs ==
    /\ call.fn = "kgToLbs"
    /\ ~ret.done
    /\ ret' = Returned(kgToLbs(Double(call.kg)))
    /\ UNCHANGED <<call, frequencyOptions, earlier, pageVars>>

CallLbsToKg ==
    /\ call.fn = "lbsToKg"
    /\ ~ret.done
    /\ ret' = Returned(lbsToKg(Double(call.lbs)))
    /\ UNCHANGED <<call, frequencyOptions, earlier, pageVars>>

CallConvertVolume ==
    /\ call.fn = "convertVolume"
    /\ ~ret.done
    /\ ret' = Returned(convertVolume(Double(call.value), call.from, call.to))
    /\ UNCHANGED <<call, frequencyOptions, earlier, pageVars>>

CallConvertWeight ==
    /\ call.fn = "convertWeight"
    /\ ~ret.done
    /\ ret' = Returned(convertWeight(Double(call.value), call.from, call.to))
    /\ UNCHANGED <<call, frequencyOptions, earlier, pageVars>>

CallGetVolumeInSystem ==
    /\ call.fn = "getVolumeInSystem"
    /\ ~ret.done
    /\ ret' = Returned(getVolumeInSystem(Double(call.mL), call.system))
    /\ UNCHANGED <<call, frequencyOptions, earlier, pageVars>>

CallGetWeightInSystem ==
    /\ call.fn = "getWeightInSystem"
    /\ ~ret.done
    /\ ret' = Returned(getWeightInSystem(Double(call.kg), call.system))
    /\ UNCHANGED <<call, frequencyOptions, earlier, pageVars>>

CallFormatVolumeWithEquivalent ==
    /\ call.fn = "formatVolumeWithEquivalent"
    /\ ~ret.done
    /\ ret' = Returned(formatVolumeWithEquivalent(Double(call.mL)))
    /\ UNCHANGED <<call, frequencyOptions, earlier, pageVars>>

CallFormatWeightWithEquivalent ==
    /\ call.fn = "formatWeightWithEquivalent"
    /\ ~ret.done
    /\ ret' = Returned(formatWeightWithEquivalent(Double(call.kg)))
    /\ UNCHANGED <<call, frequencyOptions, earlier, pageVars>>

Next ==
    \/ CallCalculateQuantity
    \/ CallParseDosesPerAdmin
    \/ CallParseFrequencyFromDosing
    \/ CallGetFrequencyPerDay
    \/ CallGetUnitForForm
    \/ CallMlToTsp
    \/ CallTspToMl
    \/ CallMlToTbsp
    \/ CallTbspToMl
    \/ CallMlToFlOz
    \/ CallFlOzToMl
    \/ CallKgToLbs
    \/ CallLbsToKg
    \/ CallConvertVolume
    \/ CallConvertWeight
    \/ CallGetVolumeInSystem
    \/ CallGetWeightInSystem
    \/ CallFormatVolumeWithEquivalent
    \/ CallFormatWeightWithEquivalent

Spec == Init /\ [][Next]_vars

(***************************************************************************)
(* A session: calls repeated and interleaved.  After a call has returned   *)
(* the caller makes another one; `earlier` remembers one call that was     *)
(* made before, with its result.                                           *)
(***************************************************************************)
SessionNumbers == {Num(10), Rat(149, 4)}

SessionCalls ==
    [fn : {"mlToTsp", "mlToTbsp", "mlToFlOz", "formatVolumeWithEquivalent"},
     mL : SessionNumbers]
    \cup [fn : {"tspToMl"}, tsp : SessionNumbers]
    \cup [fn : {"tbspToMl"}, tbsp : SessionNumbers]
    \cup [fn : {"flOzToMl"}, flOz : SessionNumbers]
    \cup [fn : {"kgToLbs", "formatWeightWithEquivalent"}, kg : SessionNumbers]
    \cup [fn : {"lbsToKg"}, lbs : SessionNumbers]
    \cup [fn : {"convertVolume"}, value : SessionNumbers,
          from : {"fl oz"}, to : {"tsp"}]
    \cup [fn : {"convertWeight"}, value : SessionNumbers,
          from : {"kg"}, to : {"lbs"}]
    \cup [fn : {"getVolumeInSystem"}, mL : SessionNumbers, system : {"imperial"}]
    \cup [fn : {"getWeightInSystem"}, kg : SessionNumbers, system : {"imperial"}]
    \cup [fn : {"calculateQuantity"}, frequency : {"weekly", "prn"},
          durationDays : {10}, dosesPerAdmin : {2}, form : {"liquid"}]
    \cup [fn : {"parseDosesPerAdmin"}, dosingString : {"2 puffs", "1-2 tablets"},
          form : {"inhaler"}]
    \cup [fn : {"parseFrequencyFromDosing"},
          dosingString : {"500mg TID", "as directed"}]
    \cup [fn : {"getFrequencyPerDay"}, frequency : {"daily", "weekly", "hourly"}]
    \cup [fn : {"getUnitForForm"}, form : {"liquid", "cream"}]

InitSession ==
    /\ call \in SessionCalls
    /\ ret = NotReturned
    /\ frequencyOptions = FREQUENCY_OPTIONS
    /\ earlier = NoEarlier
    /\ PageInit

\* The caller makes its next call, as recalculateQuantity calls
\* parseDosesPerAdmin and then calculateQuantity.
CallAgain ==
    /\ ret.done
    /\ call' \in SessionCalls
    /\ ret' = NotReturned
    /\ earlier' \in {earlier, [seen |-> TRUE, call |-> call, value |-> ret.value]}
    /\ UNCHANGED <<frequencyOptions, pageVars>>

NextSession == Next \/ CallAgain

Session == InitSession /\ [][NextSession]_vars

(***************************************************************************)

(* The prescribing part of PatientChartPage.  An optional field is a      *)
(* sequence: <<>> when it is undefined, <<v>> when it has the value v.    *)
(* `call` is the handler that ran last, with its argument.                 *)
(***************************************************************************)
MaxPrescription == 1

\* Medications the search can return: one with dosing buttons, one that
\* comes without a form and without common dosing (free-text dosing).
Formulary ==
    << [name |-> "Amoxicillin", form |-> "capsule",
        commonDosing |-> <<"1-2 capsules">>],
       [name |-> "Saline", form |-> "", commonDosing |-> <<>>] >>

\* Dosing the user can enter for a medication: one of its buttons, or free
\* text when it has none.
DosingTexts(medication) ==
    IF Len(medication.commonDosing) > 0
    THEN {medication.commonDosing[i] : i \in DOMAIN medication.commonDosing}
    ELSE {"", "2 tablets daily"}

\* Values of the frequency Select the user picks.
FrequencyChoices == {"prn"}

\* parseInt(e.target.value, 10) || 0 of the duration input
TypedDurations == {0, -5}

\* Results of getDefaultDuration(medication.name).
DefaultDurations == {7}

\* The medications whose name includes the query, case ignored.
Matching(query) ==
    SelectSeq(Formulary, LAMBDA med : includes(toUpperCase(med.name), toUpperCase(query)))

\* !field for an optional string field and for an optional number field
NoText(field) == field = <<>> \/ field[1] = ""

NoNumber(field) == field = <<>> \/ field[1] = 0

\* x || y for a form
FormOr(form, other) == IF form = "" THEN other ELSE form

Computed(med, freq, duration, result) ==
    [med EXCEPT !.frequency = freq,
                !.durationDays = duration,
                !.calculatedQuantity = <<result.quantity>>,
                !.quantityUnit = result.unit,
                !.isQuantityEstimate = result.isEstimate]

\* Mutant of Recalculated: the quantity is computed for the duration the
\* medication had, not for the one being stored.
Recalculated_OldDuration(med, freq, duration, form) ==
    IF NoText(freq) \/ NoNumber(duration) \/ NoText(med.selectedDosing)
    THEN [med EXCEPT !.frequency = freq,
                     !.durationDays = duration,
                     !.calculatedQuantity = <<>>]
    ELSE Computed(med, freq, duration,
                  calculateQuantity(freq[1], med.durationDays[1],
                                    parseDosesPerAdmin(med.selectedDosing[1], form),
                                    form))

Recalculated(med, freq, duration, form) ==
    IF NoText(freq) \/ NoNumber(duration) \/ NoText(med.selectedDosing)
    THEN [med EXCEPT !.frequency = freq,
                     !.durationDays = duration,
                     !.calculatedQuantity = <<>>]
    ELSE Computed(med, freq, duration,
                  calculateQuantity(freq[1], duration[1],
                                    parseDosesPerAdmin(med.selectedDosing[1], form),
                                    form))

recalculateQuantity(med, frequency, durationDays) ==
    Recalculated(med,
                 IF frequency # <<>> THEN frequency ELSE med.frequency,
                 IF durationDays # <<>> THEN durationDays ELSE med.durationDays,
                 FormOr(med.form, "tablet"))

InitPage ==
    /\ call = [fn |-> "mount"]
    /\ ret = NotReturned
    /\ frequencyOptions = FREQUENCY_OPTIONS
    /\ earlier = NoEarlier
    /\ PageInit

\* The user types a query and the search for it completes.
Searched(query) ==
    /\ call' = [fn |-> "performSearch", query |-> query]
    /\ searchQuery' = query
    /\ debouncedSearch' = query
    /\ searchResults' = IF Len(query) < 3 THEN <<>> ELSE Matching(query)
    /\ UNCHANGED <<ret, frequencyOptions, earlier, selectedMedication, prescription,
                   isSearching, pending, searchCache, now>>

handleMedicationSelect(medication, defaultDuration) ==
    /\ ~isSearching
    /\ ~selectedMedication.selected
    /\ \E i \in DOMAIN searchResults : searchResults[i] = medication
    /\ call' = [fn |-> "handleMedicationSelect", medication |-> medication]
    /\ selectedMedication' =
           [selected |-> TRUE,
            name |-> medication.name,
            form |-> medication.form,
            commonDosing |-> medication.commonDosing,
            selectedDosing |-> <<>>,
            frequency |-> <<>>,
            durationDays |-> <<defaultDuration>>,
            calculatedQuantity |-> <<>>,
            quantityUnit |-> getUnitForForm(FormOr(medication.form, "tablet")),
            isQuantityEstimate |-> FALSE,
            instructions |-> <<>>]
    /\ UNCHANGED <<ret, frequencyOptions, earlier, prescription, searchQuery,
                   debouncedSearch, searchResults, isSearching, pending,
                   searchCache, now>>

\* Mutant of handleDosingSelect: a dosing text without a frequency keyword
\* sets the frequency to once daily.
handleDosingSelect_DailyOnNoMatch(dosing) ==
    /\ selectedMedication.selected
    /\ call' = [fn |-> "handleDosingSelect", dosing |-> dosing]
    /\ selectedMedication' =
           recalculateQuantity(
               [selectedMedication EXCEPT !.selectedDosing = <<dosing>>],
               IF parseFrequencyFromDosing(dosing) # Null
               THEN <<parseFrequencyFromDosing(dosing)>>
               ELSE <<"daily">>,
               selectedMedication.durationDays)
    /\ UNCHANGED <<ret, frequencyOptions, earlier, prescription, searchQuery,
                   debouncedSearch, searchResults, isSearching, pending,
                   searchCache, now>>

handleDosingSelect(dosing) ==
    /\ selectedMedication.selected
    /\ call' = [fn |-> "handleDosingSelect", dosing |-> dosing]
    /\ selectedMedication' =
           recalculateQuantity(
               [selectedMedication EXCEPT !.selectedDosing = <<dosing>>],
               IF parseFrequencyFromDosing(dosing) # Null
               THEN <<parseFrequencyFromDosing(dosing)>>
               ELSE selectedMedication.frequency,
               selectedMedication.durationDays)
    /\ UNCHANGED <<ret, frequencyOptions, earlier, prescription, searchQuery,
                   debouncedSearch, searchResults, isSearching, pending,
                   searchCache, now>>

handleFrequencyChange(frequency) ==
    /\ selectedMedication.selected
    /\ call' = [fn |-> "handleFrequencyChange", frequency |-> frequency]
    /\ selectedMedication' = recalculateQuantity(selectedMedication, <<frequency>>, <<>>)
    /\ UNCHANGED <<ret, frequencyOptions, earlier, prescription, searchQuery,
                   debouncedSearch, searchResults, isSearching, pending,
                   searchCache, now>>

handleDurationChange(days) ==
    /\ selectedMedication.selected
    /\ call' = [fn |-> "handleDurationChange", days |-> days]
    /\ selectedMedication' = recalculateQuantity(selectedMedication, <<>>, <<days>>)
    /\ UNCHANGED <<ret, frequencyOptions, earlier, prescription, searchQuery,
                   debouncedSearch, searchResults, isSearching, pending,
                   searchCache, now>>

handleInstructionsChange(instructions) ==
    /\ selectedMedication.selected
    /\ call' = [fn |-> "handleInstructionsChange", instructions |-> instructions]
    /\ selectedMedication' = [selectedMedication EXCEPT !.instructions = <<instructions>>]
    /\ UNCHANGED <<ret, frequencyOptions, earlier, prescription, searchQuery,
                   debouncedSearch, searchResults, isSearching, pending,
                   searchCache, now>>

handleProceed ==
    /\ selectedMedication.selected
    /\ ~NoText(selectedMedication.selectedDosing)
    /\ ~NoText(selectedMedication.frequency)
    /\ ~NoNumber(selectedMedication.durationDays)
    /\ Len(prescription) < MaxPrescription
    /\ call' = [fn |-> "handleProceed"]
    /\ prescription' = Append(prescription, selectedMedication)
    /\ selectedMedication' = NoMedication
    /\ searchQuery' = ""
    /\ searchResults' = <<>>
    /\ UNCHANGED <<ret, frequencyOptions, earlier, debouncedSearch, isSearching,
                   pending, searchCache, now>>

handleClearSelection ==
    /\ selectedMedication.selected
    /\ call' = [fn |-> "handleClearSelection"]
    /\ selectedMedication' = NoMedication
    /\ UNCHANGED <<ret, frequencyOptions, earlier, prescription, searchQuery,
                   debouncedSearch, searchResults, isSearching, pending,
                   searchCache, now>>

NextChart ==
    \/ Searched("lin")
    \/ \E i \in DOMAIN Formulary, d \in DefaultDurations :
           handleMedicationSelect(Formulary[i], d)
    \/ /\ selectedMedication.selected
       /\ \E dosing \in DosingTexts(selectedMedication) : handleDosingSelect(dosing)
    \/ \E frequency \in FrequencyChoices : handleFrequencyChange(frequency)
    \/ \E days \in TypedDurations : handleDurationChange(days)
    \/ handleInstructionsChange("with food")
    \/ handleProceed
    \/ handleClearSelection

Chart == InitPage /\ [][NextChart]_vars

(***************************************************************************)

(* The medication search: api/medicationApi.ts and the search effect of   *)
(* PatientChartPage.  `pending` lists the requests in flight in the order  *)
(* they were sent; a response may arrive for any of them.  `now` is        *)
(* Date.now().  `call` is the last event and `ret` what the most recent    *)
(* call of searchMedications produced.                                     *)
(***************************************************************************)
MaxPending == 2
MaxPeriods == 1
MaxMillis == 1

\* 5 * 60 * 1000
CACHE_TTL_MS == 300000

QueryTexts == {"li", "lin", "LIN", "sal"}

\* String.prototype.toLowerCase (ASCII letters)
RECURSIVE toLowerCase(_)
toLowerCase(s) ==
    IF Len(s) = 0 THEN ""
    ELSE (IF \E i \in 1..Len(UpperCaseLetters) : Char(UpperCaseLetters, i) = Char(s, 1)
          THEN Char(LowerCaseLetters,
                    CHOOSE i \in 1..Len(UpperCaseLetters) :
                        Char(UpperCaseLetters, i) = Char(s, 1))
          ELSE Char(s, 1))
         \o toLowerCase(SubSeq(s, 2, Len(s)))

\* The error `throw new Error('Search failed')` rejects the call with.
Threw == [done |-> TRUE, error |-> "Search failed"]

\* Mutant of getCached: an entry is served whatever its age.
getCached_NoExpiry(query) ==
    IF toLowerCase(query) \in DOMAIN searchCache
    THEN <<searchCache[toLowerCase(query)].results>>
    ELSE <<>>

\* What getCached returns: <<results>> for an entry not older than the
\* time to live, <<>> for null.
getCached(query) ==
    IF /\ toLowerCase(query) \in DOMAIN searchCache
       /\ ~(now - searchCache[toLowerCase(query)].timestamp > CACHE_TTL_MS)
    THEN <<searchCache[toLowerCase(query)].results>>
    ELSE <<>>

\* The cache after getCached: an entry found too old is deleted.
CacheAfterLookup(query) ==
    IF getCached(query) = <<>>
    THEN [key \in DOMAIN searchCache \ {toLowerCase(query)} |-> searchCache[key]]
    ELSE searchCache

\* Mutant of setCache: the entry is stored under the query as typed.
setCache_KeyAsTyped(query, results) ==
    (query :> [results |-> results, timestamp |-> now]) @@ searchCache

\* The cache after setCache.
setCache(query, results) ==
    (toLowerCase(query) :> [results |-> results, timestamp |-> now]) @@ searchCache

\* Every request sent before is no longer the most recent one.
Older(requests) ==
    [i \in DOMAIN requests |-> [requests[i] EXCEPT !.latest = FALSE]]

\* searchMedications(query) up to its first await on the network; `page`
\* tells whether performSearch is the caller.  A result taken from the
\* cache reaches the caller before any other event.
searchMedications(query, page) ==
    /\ Len(query) < 3 \/ getCached(query) # <<>> \/ Len(pending) < MaxPending
    /\ call' = [fn |-> "searchMedications", query |-> query, page |-> page]
    /\ IF Len(query) < 3
       THEN /\ ret' = Returned(<<>>)
            /\ pending' = Older(pending)
            /\ searchCache' = searchCache
            /\ searchResults' = IF page THEN <<>> ELSE searchResults
            /\ isSearching' = IF page THEN FALSE ELSE isSearching
       ELSE IF getCached(query) # <<>>
       THEN /\ ret' = Returned(getCached(query)[1])
            /\ pending' = Older(pending)
            /\ searchCache' = searchCache
            /\ searchResults' = IF page THEN getCached(query)[1] ELSE searchResults
            /\ isSearching' = IF page THEN FALSE ELSE isSearching
       ELSE /\ ret' = NotReturned
            /\ pending' = Append(Older(pending),
                                 [query |-> query, page |-> page, latest |-> TRUE])
            /\ searchCache' = CacheAfterLookup(query)
            /\ searchResults' = searchResults
            /\ isSearching' = IF page THEN TRUE ELSE isSearching
    /\ UNCHANGED <<frequencyOptions, earlier, selectedMedication, prescription, now>>

\* The search input's onChange.
setSearchQuery(query) ==
    /\ query # searchQuery
    /\ call' = [fn |-> "setSearchQuery", query |-> query]
    /\ searchQuery' = query
    /\ UNCHANGED <<ret, frequencyOptions, earlier, selectedMedication, prescription,
                   debouncedSearch, searchResults, isSearching, pending,
                   searchCache, now>>

\* useDebounce hands the typed query on, and the effect on debouncedSearch
\* runs performSearch.
performSearch ==
    /\ debouncedSearch # searchQuery
    /\ debouncedSearch' = searchQuery
    /\ IF Len(searchQuery) < 3
       THEN /\ call' = [fn |-> "performSearch", query |-> searchQuery]
            /\ searchResults' = <<>>
            /\ pending' = Older(pending)
            /\ ret' = Returned(<<>>)
            /\ UNCHANGED <<frequencyOptions, earlier, selectedMedication, prescription,
                           isSearching, searchCache, now>>
       ELSE searchMedications(searchQuery, TRUE)
    /\ searchQuery' = searchQuery

\* The response to the i-th request in flight arrives: response.ok or not.
Respond(i, ok) ==
    /\ i \in DOMAIN pending
    /\ call' = [fn |-> "response", query |-> pending[i].query, ok |-> ok,
                latest |-> pending[i].latest]
    /\ pending' = [j \in 1..(Len(pending) - 1) |->
                       IF j < i THEN pending[j] ELSE pending[j + 1]]
    /\ searchCache' = IF ok THEN setCache(pending[i].query, Matching(pending[i].query))
                      ELSE searchCache
    /\ ret' = IF ~pending[i].latest THEN ret
              ELSE IF ok THEN Returned(Matching(pending[i].query))
              ELSE Threw
    /\ searchResults' = IF pending[i].page /\ ok THEN Matching(pending[i].query)
                        ELSE searchResults
    /\ isSearching' = IF pending[i].page THEN FALSE ELSE isSearching
    /\ UNCHANGED <<frequencyOptions, earlier, selectedMedication, prescription,
                   searchQuery, debouncedSearch, now>>

\* Time passes: a millisecond, or the cache's time to live.
Tick(ms) ==
    /\ IF ms = 1 THEN now % CACHE_TTL_MS < MaxMillis
                 ELSE now \div CACHE_TTL_MS < MaxPeriods
    /\ call' = [fn |-> "Date.now"]
    /\ now' = now + ms
    /\ UNCHANGED <<ret, frequencyOptions, earlier, selectedMedication,
                   prescription, searchQuery, debouncedSearch, searchResults,
                   isSearching, pending, searchCache>>

\* The exported function with any caller.
NextApi ==
    \/ \E query \in QueryTexts :
           searchMedications(query, FALSE) /\ UNCHANGED <<searchQuery, debouncedSearch>>
    \/ \E i \in 1..MaxPending, ok \in BOOLEAN : Respond(i, ok)
    \/ \E ms \in {1, CACHE_TTL_MS} : Tick(ms)

Api == InitPage /\ [][NextApi]_vars

\* The page's search box.
NextSearch ==
    \/ \E query \in QueryTexts \cup {""} : setSearchQuery(query)
    \/ performSearch
    \/ \E i \in 1..MaxPending, ok \in BOOLEAN : Respond(i, ok)
    \/ \E ms \in {1, CACHE_TTL_MS} : Tick(ms)

Search == InitPage /\ [][NextSearch]_vars

(***************************************************************************)

(* Properties of calculateQuantity.                                        *)
(***************************************************************************)
CalculateQuantityReturned == call.fn = "calculateQuantity" /\ ret.done

\* The exact product dosesPerAdmin x administrationsPerDay x durationDays of
\* the recorded call, as numerator and denominator.
ProductNumerator ==
    call.dosesPerAdmin * getFrequencyPerDay(call.frequency)[1] * call.durationDays

ProductDenominator == getFrequencyPerDay(call.frequency)[2]

\* C1: for non-negative durationDays and dosesPerAdmin, and every frequency
\* code and form, the returned quantity is the ceiling of dosesPerAdmin x
\* administrationsPerDay(code) x durationDays: an integer that is not below
\* the product, while the next smaller integer is below it.
C1_QuantityIsCeiling ==
    (CalculateQuantityReturned /\ call.durationDays >= 0 /\ call.dosesPerAdmin >= 0)
        => /\ ret.value.quantity \in Int
           /\ ret.value.quantity * ProductDenominator >= ProductNumerator
           /\ (ret.value.quantity - 1) * ProductDenominator < ProductNumerator

\* C1 witness: 'weekly', 1 dose, 10 days was computed (10/7 rounds up to 2).
C1_Witness ==
    /\ CalculateQuantityReturned
    /\ call.frequency = "weekly" /\ call.dosesPerAdmin = 1 /\ call.durationDays = 10
    /\ ret.value.quantity = 2

\* C2 (as claimed): for every input, zero or negative ones included, the
\* returned quantity is never negative, and a zero-or-negative duration
\* yields quantity 0.
C2_QuantityNeverNegative ==
    CalculateQuantityReturned
        => /\ ret.value.quantity >= 0
           /\ (call.durationDays <= 0 => ret.value.quantity = 0)

\* C3: isEstimate is true exactly when the frequency code is 'prn' or
\* 'q4-6h', whatever the other arguments; 'QID', 'q6h' and codes outside the
\* catalog give false.
C3_EstimateExactlyPrnAndQ46h ==
    CalculateQuantityReturned
        => /\ ret.value.isEstimate = (call.frequency \in {"prn", "q4-6h"})
           /\ (call.frequency \in {"QID", "q6h"} \cup (FrequencyInputs \ CatalogCodes)
                  => ~ret.value.isEstimate)

\* C3 witness: a 'prn' calculation returned with the flag set.
C3_Witness ==
    /\ CalculateQuantityReturned
    /\ call.frequency = "prn"
    /\ ret.value.isEstimate

(***************************************************************************)
(* Properties of parseFrequencyFromDosing.                                 *)
(***************************************************************************)
\* The keyword groups in the order the claim lists them.
KeywordGroups ==
    << [code |-> "TID",    keywords |-> {"TID", "THREE TIMES"}],
       [code |-> "BID",    keywords |-> {"BID", "TWICE"}],
       [code |-> "QID",    keywords |-> {"QID", "FOUR TIMES"}],
       [code |-> "q4-6h",  keywords |-> {"EVERY 4-6", "Q4-6"}],
       [code |-> "q6h",    keywords |-> {"EVERY 6", "Q6H"}],
       [code |-> "q8h",    keywords |-> {"EVERY 8", "Q8H"}],
       [code |-> "q12h",   keywords |-> {"EVERY 12", "Q12H"}],
       [code |-> "weekly", keywords |-> {"WEEKLY"}],
       [code |-> "prn",    keywords |-> {"PRN", "AS NEEDED"}],
       [code |-> "daily",  keywords |-> {"DAILY", "ONCE"}] >>

\* The groups with a keyword occurring in the upper-cased text.
GroupsOccurring(text) ==
    {g \in DOMAIN KeywordGroups :
        \E k \in KeywordGroups[g].keywords : includes(toUpperCase(text), k)}

\* C4: the result is the code of the earliest keyword group, in the fixed
\* order, that has a keyword in the upper-cased text, and null when no group
\* has one.
C4_FirstKeywordGroupWins ==
    (call.fn = "parseFrequencyFromDosing" /\ ret.done)
        => IF GroupsOccurring(call.dosingString) = {}
           THEN ret.value = Null
           ELSE ret.value = KeywordGroups[Min(GroupsOccurring(call.dosingString))].code

\* C4 witness: "500mg TWICE daily" holds keywords of the BID and of the daily
\* group and was parsed to 'BID'.
C4_Witness ==
    /\ call.fn = "parseFrequencyFromDosing" /\ ret.done
    /\ call.dosingString = "500mg TWICE daily"
    /\ GroupsOccurring(call.dosingString) = {2, 10}
    /\ ret.value = "BID"

(***************************************************************************)
(* Properties of parseDosesPerAdmin.                                       *)
(***************************************************************************)
ParseDosesReturned == call.fn = "parseDosesPerAdmin" /\ ret.done

AllDigits(s, i, j) == \A k \in i..j : IsDigit(Char(s, k))

AllSpaces(s, i, j) == \A k \in i..j : IsSpace(Char(s, k))

\* One of the unit words tablet, capsule, puff, dose starts at position u, in
\* any case (a plural only adds letters after the word).
UnitWordAt(s, u) ==
    \E w \in {"tablet", "capsule", "puff", "dose"} : WordAt(s, u, w)

\* The positions where a number followed by a unit word starts: a run of
\* digits that no digit precedes, then optional white space, then a unit word.
NumberUnitStarts(s) ==
    {i \in 1..Len(s) :
        /\ IsDigit(Char(s, i))
        /\ i = 1 \/ ~IsDigit(Char(s, i - 1))
        /\ \E a \in (i + 1)..Len(s) :
              /\ AllDigits(s, i, a - 1)
              /\ \E u \in a..Len(s) : AllSpaces(s, a, u - 1) /\ UnitWordAt(s, u)}

\* The number whose digits start at position i.
NumberFrom(s, i) ==
    LET e == CHOOSE e \in i..Len(s) :
                 /\ AllDigits(s, i, e)
                 /\ e = Len(s) \/ ~IsDigit(Char(s, e + 1))
    IN  parseInt(SubSeq(s, i, e))

\* The number whose digits end at position e.
NumberUpTo(s, e) ==
    LET i == CHOOSE i \in 1..e :
                 /\ AllDigits(s, i, e)
                 /\ i = 1 \/ ~IsDigit(Char(s, i - 1))
    IN  parseInt(SubSeq(s, i, e))

\* The positions of the hyphen of a range N-M followed by a unit word: a
\* number, optional white space, '-', optional white space, and then a number
\* followed by a unit word.
RangeHyphens(s) ==
    {h \in 1..Len(s) :
        /\ Char(s, h) = "-"
        /\ \E a \in 2..h : AllSpaces(s, a, h - 1) /\ IsDigit(Char(s, a - 1))
        /\ \E b \in (h + 1)..Len(s) :
              AllSpaces(s, h + 1, b - 1) /\ b \in NumberUnitStarts(s)}

\* The two numbers N and M of the range whose hyphen is at position h.
RangeLower(s, h) ==
    NumberUpTo(s, (CHOOSE a \in 2..h :
                      AllSpaces(s, a, h - 1) /\ IsDigit(Char(s, a - 1))) - 1)

RangeUpper(s, h) ==
    NumberFrom(s, CHOOSE b \in (h + 1)..Len(s) :
                      AllSpaces(s, h + 1, b - 1) /\ IsDigit(Char(s, b)))

\* C5 (as claimed): when the text holds a range N-M followed by a unit word,
\* the result is the larger of N and M, the most the range allows.
C5_RangeGivesLargerBound ==
    (ParseDosesReturned /\ RangeHyphens(call.dosingString) # {})
        => LET h == Min(RangeHyphens(call.dosingString))
           IN  ret.value = Max({RangeLower(call.dosingString, h),
                                RangeUpper(call.dosingString, h)})

\* C6: when the text holds no range followed by a unit word but holds a
\* number followed by a unit word, the result is the first such number,
\* whatever the form.
C6_FirstNumberBeforeUnit ==
    (/\ ParseDosesReturned
     /\ RangeHyphens(call.dosingString) = {}
     /\ NumberUnitStarts(call.dosingString) # {})
        => ret.value = NumberFrom(call.dosingString,
                                  Min(NumberUnitStarts(call.dosingString)))

\* C6 witness: a text with two numbers before unit words and no range was
\* parsed, and the two numbers differ.
C6_Witness ==
    /\ ParseDosesReturned
    /\ call.dosingString = "3 doses, 2 Puffs"
    /\ RangeHyphens(call.dosingString) = {}
    /\ NumberUnitStarts(call.dosingString) = {1, 10}
    /\ ret.value = 3

\* C7: when the text holds no number followed by a unit word, the result is
\* 2 for the form inhaler and 1 for every other form.
C7_DefaultWithoutNumberAndUnit ==
    (ParseDosesReturned /\ NumberUnitStarts(call.dosingString) = {})
        => ret.value = IF call.form = "inhaler" THEN 2 ELSE 1

\* C7 witness: the empty text was parsed for an inhaler and gave 2.
C7_Witness ==
    /\ ParseDosesReturned
    /\ call.dosingString = "" /\ call.form = "inhaler"
    /\ ret.value = 2

(***************************************************************************)
(* Properties of the catalog and table lookups.                            *)
(***************************************************************************)
\* C8: a frequency code that is not in the catalog is computed with one
\* administration per day: quantity is the ceiling of dosesPerAdmin x
\* durationDays, which for whole numbers is their product.
C8_UnknownCodeOncePerDay ==
    (CalculateQuantityReturned /\ call.frequency \notin CatalogCodes)
        => ret.value.quantity = call.dosesPerAdmin * call.durationDays

\* C8 witness: 'tid', a differently-cased spelling of a catalog code, was
\* computed for 1 dose and 10 days and gave 10.
C8_Witness ==
    /\ CalculateQuantityReturned
    /\ call.frequency = "tid" /\ call.dosesPerAdmin = 1 /\ call.durationDays = 10
    /\ ret.value.quantity = 10

\* The unit the claim gives for a form.
ClaimedUnit(form) ==
    CASE form = "tablet"    -> "tablets"
      [] form = "capsule"   -> "capsules"
      [] form = "liquid"    -> "mL"
      [] form = "injection" -> "doses"
      [] form = "topical"   -> "applications"
      [] form = "inhaler"   -> "puffs"
      [] OTHER              -> "units"

\* C9 (as claimed): getUnitForForm maps the six forms to their units and
\* every other form value to 'units', and calculateQuantity's unit is that
\* value.
C9_UnitMappingIsTotal ==
    /\ (call.fn = "getUnitForForm" /\ ret.done) => ret.value = ClaimedUnit(call.form)
    /\ CalculateQuantityReturned => ret.value.unit = ClaimedUnit(call.form)

\* C10: the result carries imperialEquivalent exactly when the form is
\* 'liquid', and then it is getVolumeInSystem applied to the returned
\* (rounded-up) quantity.
C10_ImperialOnlyForLiquid ==
    CalculateQuantityReturned
        => /\ (ret.value.imperialEquivalent # Undefined) = (call.form = "liquid")
           /\ call.form = "liquid"
                 => ret.value.imperialEquivalent
                      = getVolumeInSystem(FromInt(ret.value.quantity), "imperial")

\* C10 witness: a liquid with a fractional raw product (10/7) was computed;
\* the equivalent is that of 2 mL.
C10_Witness ==
    /\ CalculateQuantityReturned
    /\ call.form = "liquid" /\ call.frequency = "weekly"
    /\ call.dosesPerAdmin = 1 /\ call.durationDays = 10
    /\ ret.value.quantity = 2
    /\ ret.value.imperialEquivalent.formatted = "0.4 tsp"

\* C11: calculateQuantity with durationDays = 0 returns quantity 0 for every
\* frequency code, dosesPerAdmin and form.
C11_ZeroDurationZeroQuantity ==
    (CalculateQuantityReturned /\ call.durationDays = 0)
        => ret.value.quantity = 0

\* C11 witness: a zero-day prescription of 4 doses at 6 per day was
\* computed for a catalog code and returned 0.
C11_Witness ==
    /\ CalculateQuantityReturned
    /\ call.durationDays = 0 /\ call.dosesPerAdmin = MaxDoses
    /\ call.frequency = "prn" /\ call.form = "liquid"
    /\ ret.value.quantity = 0

(***************************************************************************)
(* Properties of the frequency catalog.                                    *)
(***************************************************************************)
\* The codes and administrations per day the catalog is said to hold.
ClaimedCatalog ==
    << <<"daily", Num(1)>>, <<"BID", Num(2)>>, <<"TID", Num(3)>>,
       <<"QID", Num(4)>>, <<"q4-6h", Num(6)>>, <<"q6h", Num(4)>>,
       <<"q8h", Num(3)>>, <<"q12h", Num(2)>>, <<"weekly", Rat(1, 7)>>,
       <<"prn", Num(6)>> >>

\* C12: in every state, before and after every operation, the catalog is
\* exactly the ten entries daily(1), BID(2), TID(3), QID(4), q4-6h(6),
\* q6h(4), q8h(3), q12h(2), weekly(1/7), prn(6) in that order, its codes are
\* pairwise distinct, and every entry has administrationsPerDay > 0.
C12_CatalogFixed ==
    /\ [i \in DOMAIN frequencyOptions |->
            <<frequencyOptions[i].value, frequencyOptions[i].perDay>>]
         = ClaimedCatalog
    /\ \A i, j \in DOMAIN frequencyOptions :
           i # j => frequencyOptions[i].value # frequencyOptions[j].value
    /\ \A i \in DOMAIN frequencyOptions :
           RatLt(Num(0), frequencyOptions[i].perDay)

\* C12 witness: a calculation that looked 'weekly' up in the catalog has
\* returned (1 dose for 10 days gives 2), and the catalog still has its ten
\* entries with 'weekly' at 1/7.
C12_Witness ==
    /\ CalculateQuantityReturned
    /\ call.frequency = "weekly" /\ call.dosesPerAdmin = 1
    /\ call.durationDays = 10 /\ ret.value.quantity = 2
    /\ Len(frequencyOptions) = 10
    /\ frequencyOptions[9].perDay = Rat(1, 7)

(***************************************************************************)
(* Properties of unitConversion.                                           *)
(***************************************************************************)
\* The conversion table as claimed: millilitres per unit.
mLPer(unit) ==
    CASE unit = "mL" -> Double(Num(1))
      [] unit = "tsp" -> Double(Num(5))
      [] unit = "tbsp" -> Double(Num(15))
      [] unit = "fl oz" -> Double(Rat(295735, 10000))

GetVolumeInSystemReturned == call.fn = "getVolumeInSystem" /\ ret.done

\* The ladder as claimed, on the exact amount: below 45 mL teaspoons, else
\* below 4 x 29.5735 mL tablespoons, else fluid ounces.
ClaimedImperialUnit(mL) ==
    IF RatLt(mL, Num(45)) THEN "tsp"
    ELSE IF RatLt(RatDiv(mL, Rat(295735, 10000)), Num(4)) THEN "tbsp"
    ELSE "fl oz"

\* C13: getVolumeInSystem(mL, 'imperial') returns teaspoons when mL/15 < 3
\* (mL < 45), otherwise tablespoons when mL/29.5735 < 4, otherwise fluid
\* ounces; 45 mL is in tablespoons; the value is the smart-rounded conversion
\* of mL into the selected unit (10 -> 2 tsp, 30 -> 6 tsp, 60 -> 4 tbsp,
\* 240 -> fl oz).
C13_ImperialLadder ==
    (GetVolumeInSystemReturned /\ call.system = "imperial")
        => /\ ret.value.unit = ClaimedImperialUnit(call.mL)
           /\ ret.value.value
                = smartRound(Over(Double(call.mL), mLPer(ret.value.unit)))
           /\ call.mL = Num(10)
                 => ret.value.unit = "tsp" /\ ret.value.value = FromInt(2)
           /\ call.mL = Num(30)
                 => ret.value.unit = "tsp" /\ ret.value.value = FromInt(6)
           /\ call.mL = Num(45) => ret.value.unit = "tbsp"
           /\ call.mL = Num(60)
                 => ret.value.unit = "tbsp" /\ ret.value.value = FromInt(4)
           /\ call.mL = Num(240) => ret.value.unit = "fl oz"

\* C13 witness: the boundary amount 45 mL was converted and came out as
\* 3 tbsp.
C13_Witness ==
    /\ GetVolumeInSystemReturned
    /\ call.system = "imperial" /\ call.mL = Num(45)
    /\ ret.value.unit = "tbsp" /\ ret.value.formatted = "3 tbsp"

\* The eight single conversions, and for a recorded call of one of them its
\* argument and the converted amount before rounding.
SingleConversions ==
    {"mlToTsp", "tspToMl", "mlToTbsp", "tbspToMl", "mlToFlOz", "flOzToMl",
     "kgToLbs", "lbsToKg"}

ConversionReturned == call.fn \in SingleConversions /\ ret.done

Argument ==
    CASE call.fn \in {"mlToTsp", "mlToTbsp", "mlToFlOz"} -> call.mL
      [] call.fn = "tspToMl" -> call.tsp
      [] call.fn = "tbspToMl" -> call.tbsp
      [] call.fn = "flOzToMl" -> call.flOz
      [] call.fn = "kgToLbs" -> call.kg
      [] call.fn = "lbsToKg" -> call.lbs

Unrounded ==
    CASE call.fn = "mlToTsp" -> Over(Double(Argument), Double(Num(5)))
      [] call.fn = "tspToMl" -> Times(Double(Argument), Double(Num(5)))
      [] call.fn = "mlToTbsp" -> Over(Double(Argument), Double(Num(15)))
      [] call.fn = "tbspToMl" -> Times(Double(Argument), Double(Num(15)))
      [] call.fn = "mlToFlOz" -> Over(Double(Argument), Double(Rat(295735, 10000)))
      [] call.fn = "flOzToMl" -> Times(Double(Argument), Double(Rat(295735, 10000)))
      [] call.fn = "kgToLbs" -> Times(Double(Argument), Double(Rat(220462, 100000)))
      [] call.fn = "lbsToKg" -> Times(Double(Argument), Double(Rat(453592, 1000000)))

\* |x|
Magnitude(x) == <<1, x[2], x[3]>>

\* The rounding as claimed: the number of decimals goes by the magnitude.
ClaimedSmartRound(value) ==
    IF IsInteger(value) THEN value
    ELSE IF ~Less(Magnitude(value), FromInt(10))
         THEN Over(FromInt(MathRound(Times(value, FromInt(10)))), FromInt(10))
         ELSE Over(FromInt(MathRound(Times(value, FromInt(100)))), FromInt(100))

\* C14 (as claimed): the value of every conversion result is the converted
\* amount unchanged if that is a whole number, else rounded to 1 decimal
\* place when its magnitude is at least 10 and to 2 decimal places
\* otherwise (1000 mL is 33.8 fl oz; 0.5 mL is 0.1 tsp).
C14_RoundingByMagnitude ==
    ConversionReturned
        => /\ ret.value.value = ClaimedSmartRound(Unrounded)
           /\ (call.fn = "mlToFlOz" /\ call.mL = Num(1000))
                 => ret.value.value = Double(Rat(338, 10))
           /\ (call.fn = "mlToTsp" /\ call.mL = Rat(1, 2))
                 => ret.value.value = Double(Rat(1, 10))

ConvertVolumeReturned == call.fn = "convertVolume" /\ ret.done

\* C15 (as claimed): for every volume unit u and every x >= 0,
\* convertVolume(x, u, u) has the value smartRound(x) and the unit u: the
\* way through millilitres and back loses nothing.
C15_SameUnitIsIdentity ==
    (ConvertVolumeReturned /\ call.from = call.to /\ call.value[1] >= 0)
        => /\ ret.value.value = smartRound(Double(call.value))
           /\ ret.value.unit = call.to

MlToTspReturned == call.fn = "mlToTsp" /\ ret.done

\* The way back of a returned teaspoon value: tspToMl(mlToTsp(v).value).value
RoundTrip == tspToMl(ret.value.value).value

\* For a number x of at most two decimals, the integer 100 * x.
Hundredths(x) == MathRound(Times(x, FromInt(100)))

\* |RoundTrip - v| <= 0.25 for the amount v = n/d as written in the call:
\* |h/100 - n/d| <= 1/4 with h the hundredths of the round trip.
RoundTripWithinQuarter ==
    4 * Abs(Hundredths(RoundTrip) * call.mL[2] - 100 * call.mL[1])
        <= 100 * call.mL[2]

\* C16 (as claimed): for v >= 0, mlToTsp(v).value is smartRound(v / 5), and
\* tspToMl of that value differs from v by at most 0.25 mL and is exactly v
\* whenever v / 5 needs no rounding.
C16_RoundTripExactUnlessRounded ==
    (MlToTspReturned /\ call.mL[1] >= 0)
        => LET v == Double(call.mL)
               fifth == Over(v, Double(Num(5)))
           IN  /\ ret.value.value = smartRound(fifth)
               /\ RoundTripWithinQuarter
               /\ smartRound(fifth) = fifth => RoundTrip = v

\* C16 (amended): for v >= 0, mlToTsp(v).value is smartRound(v / 5), and
\* tspToMl of that value differs from v by at most 0.25 mL and is exactly v
\* whenever neither v / 5 nor v itself needs rounding.
C16_RoundTripWithinTolerance ==
    (MlToTspReturned /\ call.mL[1] >= 0)
        => LET v == Double(call.mL)
               fifth == Over(v, Double(Num(5)))
           IN  /\ ret.value.value = smartRound(fifth)
               /\ RoundTripWithinQuarter
               /\ (smartRound(fifth) = fifth /\ smartRound(v) = v)
                     => RoundTrip = v

\* C16 witness: 50.25 mL was converted to 10.1 tsp (10.05 rounded), and
\* the way back gives 50.5 mL, 0.25 mL off.
C16_Witness ==
    /\ MlToTspReturned
    /\ call.mL = Rat(201, 4)
    /\ ret.value.value = Double(Rat(101, 10))
    /\ RoundTrip = Double(Rat(505, 10))

\* C17: convertVolume(value, from, to) has the value
\* smartRound(value x mLPer(from) / mLPer(to)) with mLPer = {mL: 1, tsp: 5,
\* tbsp: 15, fl oz: 29.5735} and the unit `to`: the rounding is applied once,
\* to the final amount, and the millilitres in between are not rounded.
C17_RoundedOnceAtTheEnd ==
    ConvertVolumeReturned
        => /\ ret.value.value
                = smartRound(Over(Times(Double(call.value), mLPer(call.from)),
                                  mLPer(call.to)))
           /\ ret.value.unit = call.to

\* C17 witness: 1 fl oz was converted to teaspoons and gave 5.91 (29.5735 / 5
\* = 5.9147); from the rounded 29.6 mL it would have been 5.92.
C17_Witness ==
    /\ ConvertVolumeReturned
    /\ call.value = Num(1) /\ call.from = "fl oz" /\ call.to = "tsp"
    /\ ret.value.value = Double(Rat(591, 100))
    /\ ret.value.formatted = "5.91 tsp"

ConvertWeightReturned == call.fn = "convertWeight" /\ ret.done

\* C18: convertWeight(value, from, to) returns {value: smartRound(value),
\* unit: to} when from = to; kg -> lbs multiplies by the literal 2.20462 and
\* lbs -> kg by the literal 0.453592 (not by the reciprocal of the other),
\* and each product is smart-rounded.
C18_WeightByLiteralFactors ==
    ConvertWeightReturned
        => LET v == Double(call.value)
           IN  /\ ret.value.unit = call.to
               /\ call.from = call.to => ret.value.value = smartRound(v)
               /\ (call.from = "kg" /\ call.to = "lbs")
                     => ret.value.value
                          = smartRound(Times(v, Double(Rat(220462, 100000))))
               /\ (call.from = "lbs" /\ call.to = "kg")
                     => ret.value.value
                          = smartRound(Times(v, Double(Rat(453592, 1000000))))

\* C18 witness: 167 lbs were converted to 75.7 kg (167 x 0.453592 =
\* 75.749864); the reciprocal of 2.20462 would give 75.75002, hence 75.8.
C18_Witness ==
    /\ ConvertWeightReturned
    /\ call.value = Num(167) /\ call.from = "lbs" /\ call.to = "kg"
    /\ ret.value.value = Double(Rat(757, 10))
    /\ ret.value.formatted = "75.7 kg"

GetWeightInSystemReturned == call.fn = "getWeightInSystem" /\ ret.done

\* C19: for the system 'metric', getVolumeInSystem returns the value
\* smartRound(mL) with unit 'mL' and getWeightInSystem returns the value
\* smartRound(kg) with unit 'kg', without converting; for 'imperial',
\* getWeightInSystem returns what kgToLbs(kg) returns.
C19_MetricUnconverted ==
    /\ (GetVolumeInSystemReturned /\ call.system = "metric")
          => /\ ret.value.value = smartRound(Double(call.mL))
             /\ ret.value.unit = "mL"
    /\ (GetWeightInSystemReturned /\ call.system = "metric")
          => /\ ret.value.value = smartRound(Double(call.kg))
             /\ ret.value.unit = "kg"
    /\ (GetWeightInSystemReturned /\ call.system = "imperial")
          => ret.value = kgToLbs(Double(call.kg))

\* C19 witness: 70.25 kg was asked for in the metric system and came back
\* as 70.3 kg.
C19_Witness ==
    /\ GetWeightInSystemReturned
    /\ call.system = "metric" /\ call.kg = Rat(281, 4)
    /\ ret.value.unit = "kg" /\ ret.value.value = Double(Rat(703, 10))

FormatVolumeReturned == call.fn = "formatVolumeWithEquivalent" /\ ret.done

FormatWeightReturned == call.fn = "formatWeightWithEquivalent" /\ ret.done

ResultFunctions ==
    SingleConversions
      \cup {"convertVolume", "convertWeight", "getVolumeInSystem",
            "getWeightInSystem"}

\* The units a call may name as its target.
TargetUnits ==
    CASE call.fn \in {"mlToTsp"} -> {"tsp"}
      [] call.fn \in {"mlToTbsp"} -> {"tbsp"}
      [] call.fn \in {"mlToFlOz"} -> {"fl oz"}
      [] call.fn \in {"tspToMl", "tbspToMl", "flOzToMl"} -> {"mL"}
      [] call.fn = "kgToLbs" -> {"lbs"}
      [] call.fn = "lbsToKg" -> {"kg"}
      [] call.fn \in {"convertVolume", "convertWeight"} -> {call.to}
      [] call.fn = "getVolumeInSystem" ->
            IF call.system = "metric" THEN {"mL"} ELSE {"tsp", "tbsp", "fl oz"}
      [] call.fn = "getWeightInSystem" ->
            IF call.system = "metric" THEN {"kg"} ELSE {"lbs"}

\* C21: every ConversionResult a conversion or system-selection function
\* returns has the label of its target unit as `unit`, and its `formatted`
\* is its own `value` printed, one space, and its `unit`; so mlToTsp(10) is
\* formatted "2 tsp".
C21_UnitAndFormattedAgree ==
    (call.fn \in ResultFunctions /\ ret.done)
        => /\ ret.value.unit \in TargetUnits
           /\ ret.value.formatted
                = NumberToString(ret.value.value) \o " " \o ret.value.unit
           /\ (call.fn = "mlToTsp" /\ call.mL = Num(10))
                 => ret.value.formatted = "2 tsp"

\* C21 witness: a volume was put in fluid ounces with a value that needed
\* rounding.
C21_Witness ==
    /\ call.fn = "getVolumeInSystem"
    /\ ret.done
    /\ ret.value.unit = "fl oz"
    /\ ~IsInteger(ret.value.value)

(***************************************************************************)
(* Parsed frequencies and the catalog.                                     *)
(***************************************************************************)
ParseFrequencyReturned == call.fn = "parseFrequencyFromDosing" /\ ret.done

\* C24: every value parseFrequencyFromDosing returns, other than null, is
\* the code of an entry of FREQUENCY_OPTIONS in the same spelling and case,
\* so that getFrequencyPerDay finds an entry for it instead of falling back
\* to once a day.
C24_ParsedCodeIsInCatalog ==
    (ParseFrequencyReturned /\ ret.value # Null)
        => /\ \E i \in DOMAIN frequencyOptions :
                  frequencyOptions[i].value = ret.value
           /\ \E i \in DOMAIN frequencyOptions :
                  getFrequencyPerDay(ret.value) = frequencyOptions[i].perDay
                    /\ frequencyOptions[i].value = ret.value

\* C24 witness: a dosing text was parsed to the as-needed code.
C24_Witness ==
    /\ ParseFrequencyReturned
    /\ ret.value = "prn"
    /\ getFrequencyPerDay(ret.value) = Num(6)

(***************************************************************************)
(* Monotonicity of calculateQuantity.                                      *)
(***************************************************************************)
\* C25: for a fixed frequency code and form, the quantity does not decrease
\* when durationDays or dosesPerAdmin grows, over the non-negative values.
\* Each call is compared with the calls of one day less and of one unit per
\* dose less; the calls in between are states of their own, so the steps
\* chain to any two durations and any two counts.
C25_QuantityMonotone ==
    (/\ CalculateQuantityReturned
     /\ call.durationDays >= 0
     /\ call.dosesPerAdmin >= 0)
        => /\ call.durationDays > 0
                 => calculateQuantity(call.frequency, call.durationDays - 1,
                                      call.dosesPerAdmin, call.form).quantity
                      <= ret.value.quantity
           /\ call.dosesPerAdmin > 0
                 => calculateQuantity(call.frequency, call.durationDays,
                                      call.dosesPerAdmin - 1, call.form).quantity
                      <= ret.value.quantity

\* C25 witness: a weekly medication for 8 days needs more than for 7 days,
\* and for 9 days no more than for 8.
C25_Witness ==
    /\ CalculateQuantityReturned
    /\ call.frequency = "weekly"
    /\ call.durationDays = 8
    /\ call.dosesPerAdmin = 1
    /\ ret.value.quantity = 2
    /\ calculateQuantity("weekly", 7, 1, call.form).quantity = 1
    /\ calculateQuantity("weekly", 9, 1, call.form).quantity = 2

C23_NoMatchKeepsFrequency ==
    [][(/\ selectedMedication.selected
        /\ call'.fn = "handleDosingSelect")
          => /\ selectedMedication'.selected
             /\ selectedMedication'.selectedDosing = <<call'.dosing>>
             /\ selectedMedication'.frequency =
                    IF parseFrequencyFromDosing(call'.dosing) = Null
                    THEN selectedMedication.frequency
                    ELSE <<parseFrequencyFromDosing(call'.dosing)>>]_vars

\* C23 witness: "1-2 capsules" was chosen after the frequency had been set
\* to prn, and the frequency is still prn.
C23_Witness ==
    /\ call = [fn |-> "handleDosingSelect", dosing |-> "1-2 capsules"]
    /\ parseFrequencyFromDosing(call.dosing) = Null
    /\ selectedMedication.selected
    /\ selectedMedication.selectedDosing = <<"1-2 capsules">>
    /\ selectedMedication.frequency = <<"prn">>

\* The entry is complete and its quantity fields are those calculateQuantity
\* gives for its frequency, duration and dosing, with `form` as the form.
QuantityIsCurrent(entry, result) ==
    /\ entry.calculatedQuantity = <<result.quantity>>
    /\ entry.quantityUnit = result.unit
    /\ entry.isQuantityEstimate = result.isEstimate

CommittedFor(entry, form) ==
    /\ ~NoText(entry.selectedDosing)
    /\ entry.frequency # <<>>
    /\ ~NoNumber(entry.durationDays)
    /\ QuantityIsCurrent(entry,
           calculateQuantity(entry.frequency[1], entry.durationDays[1],
                             parseDosesPerAdmin(entry.selectedDosing[1], form), form))

\* C26 as claimed: every prescription entry has a non-empty dosing, a
\* frequency, a non-zero duration, and the quantity, unit and estimate flag
\* that calculateQuantity gives for the entry's own frequency, duration,
\* dosing and form.
C26_CommittedForOwnForm ==
    \A i \in DOMAIN prescription :
        CommittedFor(prescription[i], prescription[i].form)

\* C26 amended: the same, with the form taken as the entry's form, or
\* 'tablet' when the entry's form is empty.
C26_CommittedForFormOrTablet ==
    \A i \in DOMAIN prescription :
        CommittedFor(prescription[i], FormOr(prescription[i].form, "tablet"))

\* C26 witness: a medication that came without a form was added after its
\* dosing, frequency and duration had been changed, counted in tablets.
C26_Witness ==
    /\ Len(prescription) = 1
    /\ prescription[1].form = ""
    /\ prescription[1].selectedDosing = <<"2 tablets daily">>
    /\ prescription[1].frequency = <<"prn">>
    /\ prescription[1].durationDays = <<-5>>
    /\ prescription[1].quantityUnit = "tablets"
    /\ prescription[1].isQuantityEstimate

\* C27: every medication handleProceed has added to the prescription has a
\* calculatedQuantity, and it is a positive integer, whatever duration was
\* typed and whatever dosing was chosen.
C27_CommittedQuantityPositive ==
    \A i \in DOMAIN prescription :
        /\ prescription[i].calculatedQuantity # <<>>
        /\ prescription[i].calculatedQuantity[1] \in Nat \ {0}

(***************************************************************************)
(* Properties of the medication search.                                    *)
(***************************************************************************)
\* C29: a call of searchMedications (query of 3 characters or more) that
\* finds an entry for the lower-cased query stored at most CACHE_TTL_MS
\* earlier returns the stored results, sends no request and leaves the
\* cache alone; one that finds an entry stored longer ago deletes the entry,
\* sends a request for the query and returns nothing from the cache.
C29_CachedOnlyWithinTtl ==
    [][(/\ call'.fn = "searchMedications"
        /\ Len(call'.query) >= 3
        /\ toLowerCase(call'.query) \in DOMAIN searchCache)
          => IF now - searchCache[toLowerCase(call'.query)].timestamp <= CACHE_TTL_MS
             THEN /\ ret' = Returned(searchCache[toLowerCase(call'.query)].results)
                  /\ Len(pending') = Len(pending)
                  /\ searchCache' = searchCache
             ELSE /\ ret' = NotReturned
                  /\ toLowerCase(call'.query) \notin DOMAIN searchCache'
                  /\ Len(pending') = Len(pending) + 1
                  /\ pending'[Len(pending')].query = call'.query]_vars

\* C29 witness: the results stored for "lin" exactly CACHE_TTL_MS ago were
\* returned for the query "LIN", with no request sent.
C29_Witness ==
    /\ call = [fn |-> "searchMedications", query |-> "LIN", page |-> FALSE]
    /\ "lin" \in DOMAIN searchCache
    /\ now - searchCache["lin"].timestamp = CACHE_TTL_MS
    /\ ret = Returned(searchCache["lin"].results)
    /\ pending = <<>>

\* C30: a step changes the search cache only if it is a successful response
\* (the entry for the lower-cased query is set to the response's results,
\* stamped with the current time) or a lookup of an entry older than
\* CACHE_TTL_MS (the entry is deleted); a call with a query shorter than 3
\* characters returns [] with no request sent and the cache as it was; a
\* non-OK response rejects the call and leaves the cache as it was.
C30_CacheChangesOnlyOnStoreOrExpiry ==
    [][/\ searchCache' # searchCache
            => \/ /\ call'.fn = "response"
                  /\ call'.ok
                  /\ searchCache' =
                         (toLowerCase(call'.query) :>
                              [results |-> Matching(call'.query), timestamp |-> now])
                         @@ searchCache
               \/ /\ call'.fn = "searchMedications"
                  /\ toLowerCase(call'.query) \in DOMAIN searchCache
                  /\ now - searchCache[toLowerCase(call'.query)].timestamp > CACHE_TTL_MS
                  /\ searchCache' =
                         [key \in DOMAIN searchCache \ {toLowerCase(call'.query)} |->
                              searchCache[key]]
       /\ (call'.fn = "searchMedications" /\ Len(call'.query) < 3)
            => /\ ret' = Returned(<<>>)
               /\ Len(pending') = Len(pending)
               /\ searchCache' = searchCache
       /\ (call'.fn = "response" /\ ~call'.ok)
            => /\ searchCache' = searchCache
               /\ call'.latest => ret' = Threw]_vars

\* C30 witness: a successful response to the query "LIN" has just set the
\* entry "lin", while a request for "sal" is still in flight.
C30_Witness ==
    /\ call = [fn |-> "response", query |-> "LIN", ok |-> TRUE, latest |-> FALSE]
    /\ DOMAIN searchCache = {"lin"}
    /\ searchCache["lin"] = [results |-> Matching("LIN"), timestamp |-> now]
    /\ Len(pending) = 1
    /\ pending[1].query = "sal"

\* C28: whenever no search request is in flight (and the most recent search
\* did not fail), searchResults is what the search returns for the current
\* debounced query, or empty when that query has fewer than 3 characters.
C28_ResultsOfCurrentQuery ==
    (pending = <<>> /\ ret # Threw)
        => searchResults = IF Len(debouncedSearch) < 3 THEN <<>>
                           ELSE Matching(debouncedSearch)

=============================================================================
